---- MODULE Spec2Model ----
(***************************************************************************)
(* Model of the props exporter: the anatomy tree converter                 *)
(* (convertAnatomyToTree and its helpers buildTreeFromAnatomy, renderTree, *)
(* compareAnatomies), the schema serializers (convertToJSON,               *)
(* convertToYAML, convertToTypeScript, convertToJSDoc), the effect of the  *)
(* App that reformats the output, the archive download, and of the plugin  *)
(* ExportProperties, ExportAnatomy, sanitizeForPostMessage, the handlers   *)
(* of the export requests and getAllComponents with its cache.             *)
(*                                                                         *)
(* Strings are modelled as sequences of tokens: a template literal is the  *)
(* concatenation (\o) of its pieces, split and join work on the separator  *)
(* token.  The box-drawing glyphs of the source are not ASCII, so each of  *)
(* them is a named token.  Objects are sequences of key/value entries in   *)
(* key order, arrays are sequences, element records are functions whose    *)
(* DOMAIN holds the properties that are present.                           *)
(***************************************************************************)
EXTENDS Integers, Sequences, FiniteSets, TLC

VARIABLES
    anatomyData,    \* the argument of convertAnatomyToTree
    pc,             \* "call" before the call, "return" or "throw" after it
    built,          \* the forests built by buildTreeFromAnatomy during the call
    anatomyGroups,  \* the Map of the variant grouper, in insertion order
    result,         \* the returned string
    metadata,       \* the argument of a schema serializer
    serializer,     \* the serializer that was called, "none" before the call
    serialized,     \* the text the serializer returned
    ExportedData,   \* App state: the raw data of the last export, null before it
    outputFormat,   \* App state: the selected output format
    anatomyView,    \* App state: the selected anatomy view
    options,        \* App state: the export options
    output,         \* App state: the text shown
    treeCalls,      \* the components convertAnatomyToTree was applied to by the
                    \* last run of the reformatting effect, in order
    argument,       \* the argument of a function of the plugin that is called
    returned,       \* what that function returned
    stack,          \* the nested calls of sanitizeForPostMessage, outermost
                    \* first: the cell each is at and the items it has built
    seen,           \* the WeakSet of sanitizeForPostMessage
    isExporting,    \* App state: an export was asked for and not answered
    activeTab,      \* App state: 'selection' or 'components'
    selectedComponentIds,  \* App state: the Set of the components ticked in the
                    \* list, in insertion order
    selection,      \* figma.currentPage.selection, the ids of the nodes
    toHost,         \* the export requests posted by the UI and not handled
                    \* yet, by their number
    toUI,           \* the messages posted by the plugin and not delivered yet
    tasks,          \* the export requests by number: the message, where its
                    \* handler is, and the messages the handler posted
    document,       \* the published components of the file the plugin runs in
    fileKey,        \* figma.fileKey, undefined where the host does not give it
    clientStorage,  \* figma.clientStorage under the key componentsCache
    loaders,        \* the handlers of 'get-components' and 'refresh-components'
                    \* that were started: where each is, and its locals
    componentsList, \* App state: components, the components of the list
    isLoadingComponents,  \* App state
    fromCache       \* App state: the refresh prompt is to be shown

appVars == <<ExportedData, outputFormat, anatomyView, options, output, treeCalls>>

\* The state of the plugin functions, of the export requests and of the
\* component cache.
walkVars == <<stack, seen>>

exportVars ==
    <<isExporting, activeTab, selectedComponentIds, selection, toHost, toUI, tasks>>

cacheVars ==
    <<document, fileKey, clientStorage, loaders, componentsList, isLoadingComponents,
      fromCache>>

\* The state of the messages between the UI and the plugin.
otherVars == <<exportVars, cacheVars>>

restVars == <<argument, returned, walkVars, otherVars>>

vars == <<anatomyData, pc, built, anatomyGroups, result, metadata, serializer, serialized,
          appVars, restVars>>

(***************************************************************************)
(* Bounds of the model                                                     *)
(***************************************************************************)
MaxLen == 4         \* records in an explicit-sequence anatomy
MaxDepth == 2       \* path segments of an element of a flat mapping
MaxVariants == 3    \* variants of a variant mapping

Names == {"A", "B"}
MappingNames == {"A", "B", "C"}

(***************************************************************************)
(* Tokens                                                                  *)
(***************************************************************************)
SEP == " > "
NL == "\n"
BOX == "[box] "
ROOT_TYPE == "   L- type: "
LAST_CONNECTOR == "L- "
MID_CONNECTOR == "+- "
LAST_INDENT == "   "
MID_INDENT == "|  "
RULE_CHAR == "-"
RULE_WIDTH == 60
UNKNOWN == <<"UNKNOWN">>
EMPTY == <<>>

(***************************************************************************)
(* String.prototype.split / Array.prototype.join / slice(0, -1) / repeat   *)
(***************************************************************************)
\* The k-th piece of s lies between the (k-1)-th and the k-th occurrence of
\* sep (the ends of s standing for the 0-th and the last one).
SepAt(s, sep, k) ==
    LET at == {i \in 1..Len(s) : s[i] = sep}
    IN IF k = 0 THEN 0
       ELSE IF k > Cardinality(at) THEN Len(s) + 1
       ELSE CHOOSE i \in at : Cardinality({j \in at : j < i}) = k - 1

Split(s, sep) ==
    [k \in 1..(Cardinality({i \in 1..Len(s) : s[i] = sep}) + 1) |->
        SubSeq(s, SepAt(s, sep, k - 1) + 1, SepAt(s, sep, k) - 1)]

RECURSIVE Join(_, _)
Join(parts, sep) ==
    IF Len(parts) = 0 THEN <<>>
    ELSE IF Len(parts) = 1 THEN parts[1]
    ELSE parts[1] \o <<sep>> \o Join(Tail(parts), sep)

DropLast(a) == SubSeq(a, 1, Len(a) - 1)

Repeat(tok, n) == [i \in 1..n |-> tok]

(***************************************************************************)
(* Values                                                                  *)
(***************************************************************************)
Arr(items) == [tag |-> "array", items |-> items]
Obj(entries) == [tag |-> "object", entries |-> entries]

\* The entry of an object for a key of one token.
Field(k, v) == [key |-> <<k>>, val |-> v]

Null == [tag |-> "null"]
Undefined == [tag |-> "undefined"]
Num(n) == [tag |-> "number", num |-> n]
Str(s) == [tag |-> "string", val |-> s]
Bool(b) == [tag |-> "boolean", bool |-> b]

IsArray(v) == "tag" \in DOMAIN v /\ v.tag = "array"

IsNullish(v) == "tag" \in DOMAIN v /\ v.tag \in {"null", "undefined"}

\* typeof v; an element record carries no tag and is an object.
TypeOf(v) ==
    IF "tag" \notin DOMAIN v THEN "object"
    ELSE IF v.tag \in {"null", "array", "object"} THEN "object"
    ELSE v.tag

\* !v
Falsy(v) ==
    /\ "tag" \in DOMAIN v
    /\ \/ v.tag \in {"null", "undefined"}
       \/ (v.tag = "number" /\ v.num = 0)
       \/ (v.tag = "string" /\ v.val = <<>>)
       \/ (v.tag = "boolean" /\ ~v.bool)

\* The code units a token of a string stands for: the box glyph is a
\* surrogate pair, written before a space.
CodeUnits(token) == IF token = BOX THEN 3 ELSE Len(token)

RECURSIVE Characters(_)
\* The characters of a string, one for each code unit: the token itself when
\* it is one character, and "." for each character of a longer token.
Characters(s) ==
    IF s = <<>> THEN <<>>
    ELSE [j \in 1..CodeUnits(Head(s)) |-> IF CodeUnits(Head(s)) = 1 THEN Head(s) ELSE "."]
         \o Characters(Tail(s))

\* The own enumerable properties of a value, in key order: the items of an
\* array, the entries of an object, the characters of a string, none of a
\* number or boolean.
Entries(v) ==
    IF IsArray(v)
    THEN [i \in 1..Len(v.items) |-> [key |-> <<ToString(i - 1)>>, val |-> v.items[i]]]
    ELSE IF v.tag = "object" THEN v.entries
    ELSE IF v.tag = "string"
    THEN LET chars == Characters(v.val)
         IN [i \in 1..Len(chars) |-> [key |-> <<ToString(i - 1)>>, val |-> Str(<<chars[i]>>)]]
    ELSE <<>>

ObjectKeys(v) == [i \in 1..Len(Entries(v)) |-> Entries(v)[i].key]

Get(v, k) ==
    LET i == CHOOSE j \in 1..Len(Entries(v)) : Entries(v)[j].key = k
    IN Entries(v)[i].val

\* rec.f is neither undefined nor the empty string
Truthy(rec, f) == f \in DOMAIN rec /\ rec[f] # <<>>

\* rec.f || dflt
OrElse(rec, f, dflt) == IF Truthy(rec, f) THEN rec[f] ELSE dflt

\* a.f !== b.f is false, undefined included
SameProp(a, b, f) ==
    /\ (f \in DOMAIN a) = (f \in DOMAIN b)
    /\ (f \in DOMAIN a => a[f] = b[f])

(***************************************************************************)
(* buildTreeFromAnatomy                                                    *)
(***************************************************************************)
\* The element of nodesArray made from one key of a flat mapping.
MappingRecord(e) ==
    LET base == [name |-> e.key,
                 path |-> e.val.path,
                 parentPath |-> Join(DropLast(Split(e.val.path, SEP)), SEP)]
    IN IF "type" \in DOMAIN e.val THEN base @@ ("type" :> e.val.type) ELSE base

nodesArray(anatomy) ==
    IF IsArray(anatomy) THEN anatomy.items
    ELSE [i \in 1..Len(anatomy.entries) |-> MappingRecord(anatomy.entries[i])]

\* A forest under construction.  Node i is the TreeNode created for the
\* i-th element of nodesArray; children and rootNodes hold node numbers.
EmptyForest ==
    [nodes |-> <<>>, children |-> <<>>, rootNodes |-> <<>>, nodesByPath |-> <<>>]

\* BuildStep with the Map keyed by the element name instead of the path.
BuildStepKeyedByName(st, nodeData) ==
    LET i == Len(st.nodes) + 1
        treeNode == [name |-> nodeData.name,
                     type |-> OrElse(nodeData, "type", UNKNOWN),
                     path |-> OrElse(nodeData, "path", nodeData.name),
                     parentPath |-> OrElse(nodeData, "parentPath", EMPTY)]
        byPath == (nodeData.name :> i) @@ st.nodesByPath
        made == [st EXCEPT !.nodes = Append(@, treeNode),
                           !.children = Append(@, <<>>),
                           !.nodesByPath = byPath]
    IN IF ~Truthy(nodeData, "parentPath")
       THEN [made EXCEPT !.rootNodes = Append(@, i)]
       ELSE IF nodeData.parentPath \in DOMAIN byPath
       THEN [made EXCEPT !.children[byPath[nodeData.parentPath]] = Append(@, i)]
       ELSE [made EXCEPT !.rootNodes = Append(@, i)]

\* BuildStep with unshift in place of push on the children list.
BuildStepPrepend(st, nodeData) ==
    LET i == Len(st.nodes) + 1
        treeNode == [name |-> nodeData.name,
                     type |-> OrElse(nodeData, "type", UNKNOWN),
                     path |-> OrElse(nodeData, "path", nodeData.name),
                     parentPath |-> OrElse(nodeData, "parentPath", EMPTY)]
        pathKey == OrElse(nodeData, "path", nodeData.name)
        byPath == (pathKey :> i) @@ st.nodesByPath
        made == [st EXCEPT !.nodes = Append(@, treeNode),
                           !.children = Append(@, <<>>),
                           !.nodesByPath = byPath]
    IN IF ~Truthy(nodeData, "parentPath")
       THEN [made EXCEPT !.rootNodes = Append(@, i)]
       ELSE IF nodeData.parentPath \in DOMAIN byPath
       THEN [made EXCEPT !.children[byPath[nodeData.parentPath]] = <<i>> \o @]
       ELSE [made EXCEPT !.rootNodes = Append(@, i)]

\* One iteration of the loop over nodesArray.
BuildStep(st, nodeData) ==
    LET i == Len(st.nodes) + 1
        treeNode == [name |-> nodeData.name,
                     type |-> OrElse(nodeData, "type", UNKNOWN),
                     path |-> OrElse(nodeData, "path", nodeData.name),
                     parentPath |-> OrElse(nodeData, "parentPath", EMPTY)]
        pathKey == OrElse(nodeData, "path", nodeData.name)
        byPath == (pathKey :> i) @@ st.nodesByPath
        made == [st EXCEPT !.nodes = Append(@, treeNode),
                           !.children = Append(@, <<>>),
                           !.nodesByPath = byPath]
    IN IF ~Truthy(nodeData, "parentPath")
       THEN [made EXCEPT !.rootNodes = Append(@, i)]
       ELSE IF nodeData.parentPath \in DOMAIN byPath
       THEN [made EXCEPT !.children[byPath[nodeData.parentPath]] = Append(@, i)]
       ELSE [made EXCEPT !.rootNodes = Append(@, i)]

RECURSIVE BuildLoop(_, _, _)
BuildLoop(st, arr, k) ==
    IF k > Len(arr) THEN st ELSE BuildLoop(BuildStep(st, arr[k]), arr, k + 1)

buildTreeFromAnatomy(anatomy) == BuildLoop(EmptyForest, nodesArray(anatomy), 1)

(***************************************************************************)
(* renderTree                                                              *)
(***************************************************************************)
RECURSIVE renderNode(_, _, _, _, _)
RECURSIVE renderChildren(_, _, _, _)
\* renderNode with the two indentations of childPrefix exchanged.
renderNodeSwapped(f, i, prefix, isLast, isRoot) ==
    LET node == f.nodes[i]
        connector == IF isLast THEN LAST_CONNECTOR ELSE MID_CONNECTOR
        typeInfo == IF node.type # <<>> THEN <<" (">> \o node.type \o <<")">> ELSE <<>>
        own == IF isRoot
               THEN << <<BOX>> \o node.name, <<ROOT_TYPE>> \o node.type >>
               ELSE << prefix \o <<connector>> \o node.name \o typeInfo >>
        childPrefix == IF isRoot THEN <<LAST_INDENT>>
                       ELSE prefix \o <<IF isLast THEN MID_INDENT ELSE LAST_INDENT>>
    IN own \o renderChildren(f, f.children[i], 1, childPrefix)

renderNode(f, i, prefix, isLast, isRoot) ==
    LET node == f.nodes[i]
        connector == IF isLast THEN LAST_CONNECTOR ELSE MID_CONNECTOR
        typeInfo == IF node.type # <<>> THEN <<" (">> \o node.type \o <<")">> ELSE <<>>
        own == IF isRoot
               THEN << <<BOX>> \o node.name, <<ROOT_TYPE>> \o node.type >>
               ELSE << prefix \o <<connector>> \o node.name \o typeInfo >>
        childPrefix == IF isRoot THEN <<LAST_INDENT>>
                       ELSE prefix \o <<IF isLast THEN LAST_INDENT ELSE MID_INDENT>>
    IN own \o renderChildren(f, f.children[i], 1, childPrefix)

renderChildren(f, kids, k, childPrefix) ==
    IF k > Len(kids) THEN <<>>
    ELSE renderNode(f, kids[k], childPrefix, k = Len(kids), FALSE)
         \o renderChildren(f, kids, k + 1, childPrefix)

RECURSIVE renderRoots(_, _)
renderRoots(f, k) ==
    IF k > Len(f.rootNodes) THEN <<>>
    ELSE (IF k > 1 THEN << <<>> >> ELSE <<>>)
         \o renderNode(f, f.rootNodes[k], <<>>, TRUE, TRUE)
         \o renderRoots(f, k + 1)

\* treeLines without the blank line between root blocks.
treeLinesNoBlank(f) ==
    LET NotBlank(line) == line # <<>> IN SelectSeq(renderRoots(f, 1), NotBlank)

\* The lines array of renderTree, before the join.
treeLines(f) == renderRoots(f, 1)

renderTree(f) == Join(treeLines(f), NL)

(***************************************************************************)
(* compareAnatomies and the signature of a group                           *)
(***************************************************************************)
\* Array.isArray(a) ? a : Object.keys(a).map(k => a[k])
elementsOf(anat) ==
    IF IsArray(anat) THEN anat.items
    ELSE [i \in 1..Len(anat.entries) |-> anat.entries[i].val]

\* compareAnatomies without the length test: the loop runs over the positions
\* both arrays have.
compareAnatomiesNoLength(anat1, anat2) ==
    LET arr1 == elementsOf(anat1)
        arr2 == elementsOf(anat2)
    IN \A i \in 1..Len(arr1) :
          i <= Len(arr2) =>
             /\ SameProp(arr1[i], arr2[i], "name")
             /\ SameProp(arr1[i], arr2[i], "type")
             /\ SameProp(arr1[i], arr2[i], "path")

compareAnatomies(anat1, anat2) ==
    LET arr1 == elementsOf(anat1)
        arr2 == elementsOf(anat2)
    IN /\ Len(arr1) = Len(arr2)
       /\ \A i \in 1..Len(arr1) :
             /\ SameProp(arr1[i], arr2[i], "name")
             /\ SameProp(arr1[i], arr2[i], "type")
             /\ SameProp(arr1[i], arr2[i], "path")

\* JSON.stringify of an element record: its present properties in the order
\* the records are written with, each value quoted.
RecordProps == <<"name", "type", "path", "parentPath">>

RECURSIVE JSONProps(_, _, _)
JSONProps(rec, k, first) ==
    IF k > Len(RecordProps) THEN <<>>
    ELSE IF RecordProps[k] \in DOMAIN rec
    THEN (IF first THEN <<>> ELSE <<",">>)
         \o <<"\"", RecordProps[k], "\":\"">> \o rec[RecordProps[k]] \o <<"\"">>
         \o JSONProps(rec, k + 1, FALSE)
    ELSE JSONProps(rec, k + 1, first)

JSONRecord(rec) == <<"{">> \o JSONProps(rec, 1, TRUE) \o <<"}">>

\* JSON.stringify of an anatomy in either shape.
JSONStringify(anat) ==
    IF IsArray(anat)
    THEN <<"[">>
         \o Join([i \in 1..Len(anat.items) |-> JSONRecord(anat.items[i])], ",")
         \o <<"]">>
    ELSE <<"{">>
         \o Join([i \in 1..Len(anat.entries) |->
                    <<"\"">> \o anat.entries[i].key \o <<"\":">>
                    \o JSONRecord(anat.entries[i].val)], ",")
         \o <<"}">>

(***************************************************************************)
(* The variant grouper: the loop over Object.keys(anatomyData)             *)
(***************************************************************************)
\* A Map that lists its newest key first.
MapSetFront(m, k, v) ==
    IF \E i \in 1..Len(m) : m[i].signature = k
    THEN [i \in 1..Len(m) |-> IF m[i].signature = k THEN [m[i] EXCEPT !.variantList = v]
                              ELSE m[i]]
    ELSE <<[signature |-> k, variantList |-> v]>> \o m

\* Map.prototype.set: an existing key keeps its place and gets the new value.
MapSet(m, k, v) ==
    IF \E i \in 1..Len(m) : m[i].signature = k
    THEN [i \in 1..Len(m) |-> IF m[i].signature = k THEN [m[i] EXCEPT !.variantList = v]
                              ELSE m[i]]
    ELSE Append(m, [signature |-> k, variantList |-> v])

\* The groups whose first member has the anatomy of the candidate.
MatchingGroups(groups, data, variantAnatomy) ==
    {g \in 1..Len(groups) :
        compareAnatomies(variantAnatomy, Get(data, groups[g].variantList[1]))}

GroupStep(groups, data, variantName) ==
    LET variantAnatomy == Get(data, variantName)
        found == MatchingGroups(groups, data, variantAnatomy)
    IN IF found # {}
       THEN LET g == CHOOSE x \in found : \A y \in found : x <= y
            IN [groups EXCEPT ![g].variantList = Append(@, variantName)]
       ELSE MapSet(groups, JSONStringify(variantAnatomy), <<variantName>>)

RECURSIVE GroupLoop(_, _, _, _)
GroupLoop(groups, data, variants, k) ==
    IF k > Len(variants) THEN groups
    ELSE GroupLoop(GroupStep(groups, data, variants[k]), data, variants, k + 1)

groupVariants(data) == GroupLoop(<<>>, data, ObjectKeys(data), 1)

(***************************************************************************)
(* convertAnatomyToTree                                                    *)
(***************************************************************************)
isVariantBased(data) ==
    /\ Len(Entries(data)) > 0
    /\ LET firstValue == Entries(data)[1].val
       IN /\ ~Falsy(firstValue)
          /\ \/ IsArray(firstValue)
             \/ /\ TypeOf(firstValue) = "object"
                /\ "type" \notin DOMAIN firstValue
                /\ "path" \notin DOMAIN firstValue

\* The guard without the test of !anatomyData.
PassesGuardTypeOnly(data) == TypeOf(data) = "object"

\* The call gets past its first statement: anatomyData is neither falsy nor
\* of a type other than object.
PassesGuard(data) == ~(Falsy(data) \/ TypeOf(data) # "object")

\* The call ends in a TypeError: Object.keys of null or undefined, or a
\* property read on an undefined or null value (the name of an element, the
\* type of a mapping value, split on a path that is not there).
Raises(data) ==
    \/ IsNullish(data)
    \/ /\ ~IsNullish(data)
       /\ IF isVariantBased(data)
          THEN \E k \in 2..Len(Entries(data)) : IsNullish(Entries(data)[k].val)
          ELSE IF IsArray(data)
          THEN \E k \in 1..Len(data.items) : IsNullish(data.items[k])
          ELSE \E k \in 1..Len(Entries(data)) :
                  \/ IsNullish(Entries(data)[k].val)
                  \/ "path" \notin DOMAIN Entries(data)[k].val

\* The size test off by one.
allSameAnatomyOffByOne(groups) == Len(groups) = 0

\* anatomyGroups.size === 1
allSameAnatomy(groups) == Len(groups) = 1

groupHeader(variantList) ==
    IF Len(variantList) = 1
    THEN <<"[Variant: ">> \o variantList[1] \o <<"]">>
    ELSE <<"[Variants: ">> \o Join(variantList, ", ") \o <<"]">>

\* groupLines with the separator pushed before every group.
groupLinesRuleAlways(data, variantList, groupIndex) ==
    << <<>>, Repeat(RULE_CHAR, RULE_WIDTH), <<>> >>
    \o << groupHeader(variantList), <<>>,
          renderTree(buildTreeFromAnatomy(Get(data, variantList[1]))) >>

\* The lines pushed for the group at position groupIndex + 1 of the Map.
groupLines(data, variantList, groupIndex) ==
    (IF groupIndex > 0 THEN << <<>>, Repeat(RULE_CHAR, RULE_WIDTH), <<>> >> ELSE <<>>)
    \o << groupHeader(variantList), <<>>,
          renderTree(buildTreeFromAnatomy(Get(data, variantList[1]))) >>

RECURSIVE groupedLines(_, _, _)
groupedLines(data, groups, k) ==
    IF k > Len(groups) THEN <<>>
    ELSE groupLines(data, groups[k].variantList, k - 1) \o groupedLines(data, groups, k + 1)

\* The whole call: the forests it builds, the Map of groups and the string
\* it returns.
convertAnatomyToTree(data) ==
    IF ~PassesGuard(data)
    THEN [thrown |-> FALSE, built |-> <<>>, anatomyGroups |-> <<>>, result |-> EMPTY]
    ELSE IF Raises(data)
    THEN [thrown |-> TRUE, built |-> <<>>, anatomyGroups |-> <<>>, result |-> EMPTY]
    ELSE IF isVariantBased(data)
    THEN LET variants == ObjectKeys(data)
             groups == groupVariants(data)
         IN IF allSameAnatomy(groups)
            THEN LET rootNodes == buildTreeFromAnatomy(Get(data, variants[1]))
                 IN [thrown |-> FALSE, built |-> <<rootNodes>>, anatomyGroups |-> groups,
                     result |-> renderTree(rootNodes)]
            ELSE [thrown |-> FALSE,
                  built |-> [g \in 1..Len(groups) |->
                               buildTreeFromAnatomy(Get(data, groups[g].variantList[1]))],
                  anatomyGroups |-> groups,
                  result |-> Join(groupedLines(data, groups, 1), NL)]
    ELSE LET rootNodes == buildTreeFromAnatomy(data)
         IN [thrown |-> FALSE, built |-> <<rootNodes>>, anatomyGroups |-> <<>>,
             result |-> renderTree(rootNodes)]

(***************************************************************************)
(* Values seen by the serializers                                          *)
(***************************************************************************)
\* The characters a token stands for, as far as the serializers look at
\* them: tokens with a colon, a hash or a newline inside, and tokens that
\* begin or end with a space.  Every other token is free of them.
ColonTokens == {":", ROOT_TYPE, "[Variant: ", "[Variants: "}
HashTokens == {"#"}
NewlineTokens == {NL}
LeadingSpaceTokens == {" ", SEP, " (", LAST_INDENT, ROOT_TYPE}
TrailingSpaceTokens ==
    {" ", SEP, BOX, LAST_CONNECTOR, MID_CONNECTOR, LAST_INDENT, MID_INDENT, ROOT_TYPE,
     "[Variant: ", "[Variants: ", ", "}
QUOTE == "\""
BACKSLASH == "\\"

\* An element record read as an object: its properties in the order they
\* are written with, each a string.
RecordEntries(rec) ==
    LET Present(f) == f \in DOMAIN rec
        fields == SelectSeq(RecordProps, Present)
    IN [i \in 1..Len(fields) |-> [key |-> <<fields[i]>>, val |-> Str(rec[fields[i]])]]

\* The keys and values a for...in loop or Object.keys goes through.
ForIn(v) ==
    IF "tag" \notin DOMAIN v THEN RecordEntries(v)
    ELSE IF IsNullish(v) THEN <<>>
    ELSE Entries(v)

\* v[k], Undefined when there is no such property.
PropertyOf(v, k) ==
    LET entries == ForIn(v)
    IN IF \E i \in 1..Len(entries) : entries[i].key = k
       THEN (entries[CHOOSE i \in 1..Len(entries) : entries[i].key = k]).val
       ELSE Undefined

\* v.k === s for a string literal s
PropertyIs(v, k, s) ==
    LET p == PropertyOf(v, k) IN "tag" \in DOMAIN p /\ p.tag = "string" /\ p.val = s

\* x || {}
OrEmptyObject(x) == IF Falsy(x) THEN Obj(<<>>) ELSE x

\* Number.prototype.toString for the numbers of the model.
NumberToString(n) == <<ToString(n)>>

IsUndefined(v) == "tag" \in DOMAIN v /\ v.tag = "undefined"

\* String(value), and the string a template literal puts in for a value.
RECURSIVE StringOf(_)
StringOf(v) ==
    IF "tag" \notin DOMAIN v THEN <<"[object Object]">>
    ELSE IF v.tag = "string" THEN v.val
    ELSE IF v.tag = "number" THEN NumberToString(v.num)
    ELSE IF v.tag = "boolean" THEN <<IF v.bool THEN "true" ELSE "false">>
    ELSE IF v.tag = "array"
    THEN Join([i \in 1..Len(v.items) |->
                 IF IsNullish(v.items[i]) THEN <<>> ELSE StringOf(v.items[i])], ",")
    ELSE IF v.tag = "object" THEN <<"[object Object]">>
    ELSE <<v.tag>>

RECURSIVE Concat(_)
Concat(parts) == IF Len(parts) = 0 THEN <<>> ELSE parts[1] \o Concat(Tail(parts))

(***************************************************************************)
(* formatYAMLValue and convertToYAML                                       *)
(***************************************************************************)
\* value.replace(/"/g, '\\"')
EscapeQuotes(s) ==
    Concat([i \in 1..Len(s) |-> IF s[i] = QUOTE THEN <<BACKSLASH, QUOTE>> ELSE <<s[i]>>])

\* The test of formatYAMLValue with the two tests on the ends left out.
NeedsQuotesInside(s) ==
    \E i \in 1..Len(s) : s[i] \in ColonTokens \cup HashTokens \cup NewlineTokens

\* includes(':') || includes('#') || includes('\n') || startsWith(' ') ||
\* endsWith(' ')
NeedsQuotes(s) ==
    \/ \E i \in 1..Len(s) : s[i] \in ColonTokens \cup HashTokens \cup NewlineTokens
    \/ (Len(s) > 0 /\ s[1] \in LeadingSpaceTokens)
    \/ (Len(s) > 0 /\ s[Len(s)] \in TrailingSpaceTokens)

formatYAMLValue(value) ==
    IF "tag" \in DOMAIN value /\ value.tag = "string"
    THEN IF NeedsQuotes(value.val)
         THEN <<QUOTE>> \o EscapeQuotes(value.val) \o <<QUOTE>>
         ELSE value.val
    ELSE IF "tag" \in DOMAIN value /\ value.tag = "boolean"
    THEN <<IF value.bool THEN "true" ELSE "false">>
    ELSE IF "tag" \in DOMAIN value /\ value.tag = "number"
    THEN NumberToString(value.num)
    ELSE StringOf(value)

YAML_INDENT == "  "

\* itemYaml.split('\n').map(line => line ? `  ${line}` : line).join('\n')
IndentLines(text) ==
    LET lines == Split(text, NL)
    IN Join([i \in 1..Len(lines) |->
                IF lines[i] # <<>> THEN <<YAML_INDENT>> \o lines[i] ELSE lines[i]], NL)

RECURSIVE convertToYAML(_, _)
RECURSIVE YAMLItems(_, _, _)
\* What one entry of data adds to result.
YAMLEntry(e, indent) ==
    LET indentStr == Repeat(YAML_INDENT, indent)
        value == e.val
    IN IF IsNullish(value)
       THEN indentStr \o e.key \o <<": null", NL>>
       ELSE IF TypeOf(value) = "object" /\ ~IsArray(value)
       THEN indentStr \o e.key \o <<":", NL>> \o convertToYAML(value, indent + 1)
       ELSE IF IsArray(value)
       THEN indentStr \o e.key \o <<":", NL>> \o YAMLItems(value.items, 1, indent)
       ELSE indentStr \o e.key \o <<": ">> \o formatYAMLValue(value) \o <<NL>>

\* The forEach over the items of an array value.
YAMLItems(items, k, indent) ==
    IF k > Len(items) THEN <<>>
    ELSE (IF TypeOf(items[k]) = "object"
          THEN Repeat(YAML_INDENT, indent) \o <<"  -", NL>>
               \o IndentLines(convertToYAML(items[k], indent + 2))
          ELSE Repeat(YAML_INDENT, indent) \o <<"  - ">>
               \o formatYAMLValue(items[k]) \o <<NL>>)
         \o YAMLItems(items, k + 1, indent)

convertToYAML(data, indent) ==
    Concat([i \in 1..Len(ForIn(data)) |-> YAMLEntry(ForIn(data)[i], indent)])

(***************************************************************************)
(* convertToJSON: JSON.stringify(data, null, 2)                            *)
(***************************************************************************)
JSON_INDENT == "  "

\* The quoted form of a string: quote, backslash and newline escaped.
JSONQuote(s) ==
    <<QUOTE>>
    \o Concat([i \in 1..Len(s) |->
                  IF s[i] = QUOTE THEN <<BACKSLASH, QUOTE>>
                  ELSE IF s[i] = BACKSLASH THEN <<BACKSLASH, BACKSLASH>>
                  ELSE IF s[i] = NL THEN <<BACKSLASH, "n">>
                  ELSE <<s[i]>>])
    \o <<QUOTE>>

RECURSIVE JSONValue(_, _)
\* The properties JSON.stringify writes: those whose value is not undefined.
JSONEntries(v) ==
    LET Defined(e) == ~("tag" \in DOMAIN e.val /\ e.val.tag = "undefined")
    IN SelectSeq(ForIn(v), Defined)

JSONValue(v, level) ==
    IF "tag" \in DOMAIN v /\ v.tag = "string" THEN JSONQuote(v.val)
    ELSE IF "tag" \in DOMAIN v /\ v.tag = "number" THEN NumberToString(v.num)
    ELSE IF "tag" \in DOMAIN v /\ v.tag = "boolean" THEN <<IF v.bool THEN "true" ELSE "false">>
    ELSE IF IsNullish(v) THEN <<"null">>
    ELSE IF IsArray(v)
    THEN IF Len(v.items) = 0 THEN <<"[]">>
         ELSE <<"[", NL>>
              \o Concat([i \in 1..Len(v.items) |->
                            Repeat(JSON_INDENT, level + 1) \o JSONValue(v.items[i], level + 1)
                            \o (IF i < Len(v.items) THEN <<",", NL>> ELSE <<NL>>)])
              \o Repeat(JSON_INDENT, level) \o <<"]">>
    ELSE IF Len(JSONEntries(v)) = 0 THEN <<"{}">>
         ELSE <<"{", NL>>
              \o Concat([i \in 1..Len(JSONEntries(v)) |->
                            Repeat(JSON_INDENT, level + 1)
                            \o JSONQuote(JSONEntries(v)[i].key) \o <<": ">>
                            \o JSONValue(JSONEntries(v)[i].val, level + 1)
                            \o (IF i < Len(JSONEntries(v)) THEN <<",", NL>> ELSE <<NL>>)])
              \o Repeat(JSON_INDENT, level) \o <<"}">>

convertToJSON(data) == JSONValue(data, 0)

(***************************************************************************)
(* convertToTypeScript                                                     *)
(***************************************************************************)
WhitespaceTokens == {" ", NL}

\* componentName.replace(/\s+/g, '')
cleanName(componentName) ==
    LET NotSpace(tok) == tok \notin WhitespaceTokens IN SelectSeq(componentName, NotSpace)

\* The four sections of a component, each defaulting to {}.
SectionOf(component, section) == OrEmptyObject(PropertyOf(component, <<section>>))

\* Object.keys(section).length > 0
HasKeys(section) == Len(ForIn(section)) > 0

\* String interpolation of a property that may be undefined.
Interpolated(v) == StringOf(v)

\* prop.values.map(v => `'${v}'`).join(sep)
QuotedValues(values, sep) ==
    Join([i \in 1..Len(ForIn(values)) |->
            <<"'">> \o Interpolated(ForIn(values)[i].val) \o <<"'">>], sep)

\* The typeString of convertToTypeScript.
TypeScriptType(prop) ==
    IF PropertyIs(prop, <<"type">>, <<"boolean">>) THEN <<"boolean">>
    ELSE IF PropertyIs(prop, <<"type">>, <<"string">>) THEN <<"string">>
    ELSE IF PropertyIs(prop, <<"type">>, <<"enum">>)
    THEN IF ~Falsy(PropertyOf(prop, <<"values">>))
         THEN QuotedValues(PropertyOf(prop, <<"values">>), " | ")
         ELSE <<"string">>
    ELSE IF PropertyIs(prop, <<"type">>, <<"instance">>) THEN <<"React.ReactNode">>
    ELSE IF PropertyIs(prop, <<"type">>, <<"number">>) THEN <<"number">>
    ELSE <<"any">>

\* The Props block that leaves out the props of no known kind.
TypeScriptPropsSkipUnknown(name, props) ==
    IF HasKeys(props)
    THEN <<"interface ">> \o name \o <<"Props {", NL>>
         \o Concat([i \in 1..Len(ForIn(props)) |->
                      IF TypeScriptType(ForIn(props)[i].val) = <<"any">> THEN <<>>
                      ELSE <<"  ">> \o ForIn(props)[i].key \o <<": ">>
                           \o TypeScriptType(ForIn(props)[i].val) \o <<";", NL>>])
         \o <<"}", NL, NL>>
    ELSE <<>>

TypeScriptProps(name, props) ==
    IF HasKeys(props)
    THEN <<"interface ">> \o name \o <<"Props {", NL>>
         \o Concat([i \in 1..Len(ForIn(props)) |->
                      <<"  ">> \o ForIn(props)[i].key \o <<": ">>
                      \o TypeScriptType(ForIn(props)[i].val) \o <<";", NL>>])
         \o <<"}", NL, NL>>
    ELSE <<>>

TypeScriptAnatomy(name, anatomy) ==
    LET nodes == ForIn(anatomy)
    IN IF Len(nodes) > 0
       THEN <<"interface ">> \o name \o <<"Anatomy {", NL>>
            \o Concat([i \in 1..Len(nodes) |->
                         <<"  ">> \o nodes[i].key \o <<": '">>
                         \o Interpolated(PropertyOf(nodes[i].val, <<"type">>))
                         \o <<"'; // ">>
                         \o Interpolated(PropertyOf(nodes[i].val, <<"path">>))
                         \o <<NL>>])
            \o <<"}", NL, NL>>
       ELSE <<>>

\* The nine style attributes with the type each field is declared with, in
\* the order of the tests.
StyleAttributes ==
    << <<"fills">>, <<"strokes">>, <<"effects">>, <<"fontSize">>, <<"fontWeight">>,
       <<"width">>, <<"height">>, <<"padding">>, <<"cornerRadius">> >>

StyleFieldType(attr) == IF attr \in {<<"fills">>, <<"strokes">>, <<"effects">>} THEN "any" ELSE "number"

\* if (style.x), and for cornerRadius if (style.cornerRadius !== undefined)
StyleFieldEmitted(style, attr) ==
    IF attr = <<"cornerRadius">> THEN ~IsUndefined(PropertyOf(style, attr))
    ELSE ~Falsy(PropertyOf(style, attr))

TypeScriptStyleFields(style) ==
    Concat([k \in 1..Len(StyleAttributes) |->
              IF StyleFieldEmitted(style, StyleAttributes[k])
              THEN <<"    ">> \o StyleAttributes[k]
                   \o <<"?: ", StyleFieldType(StyleAttributes[k]), ";", NL>>
              ELSE <<>>])

TypeScriptStyles(name, elementStyles) ==
    IF HasKeys(elementStyles)
    THEN <<"interface ">> \o name \o <<"Styles {", NL>>
         \o Concat([i \in 1..Len(ForIn(elementStyles)) |->
                      <<"  ">> \o ForIn(elementStyles)[i].key \o <<": {", NL>>
                      \o TypeScriptStyleFields(ForIn(elementStyles)[i].val)
                      \o <<"  };", NL>>])
         \o <<"}", NL, NL>>
    ELSE <<>>

TypeScriptTokens(name, tokens) ==
    IF HasKeys(tokens)
    THEN <<"interface ">> \o name \o <<"Tokens {", NL>>
         \o Concat([i \in 1..Len(ForIn(tokens)) |->
                      IF HasKeys(ForIn(tokens)[i].val)
                      THEN <<"  ">> \o ForIn(tokens)[i].key \o <<": {", NL>>
                           \o Concat([j \in 1..Len(ForIn(ForIn(tokens)[i].val)) |->
                                        <<"    ">> \o ForIn(ForIn(tokens)[i].val)[j].key
                                        \o <<": string;", NL>>])
                           \o <<"  };", NL>>
                      ELSE <<>>])
         \o <<"}", NL, NL>>
    ELSE <<>>

\* What one component adds to the result of convertToTypeScript.
TypeScriptComponent(componentName, component) ==
    TypeScriptProps(cleanName(componentName), SectionOf(component, "props"))
    \o TypeScriptAnatomy(cleanName(componentName), SectionOf(component, "anatomy"))
    \o TypeScriptStyles(cleanName(componentName), SectionOf(component, "elementStyles"))
    \o TypeScriptTokens(cleanName(componentName), SectionOf(component, "tokens"))

convertToTypeScript(data) ==
    Concat([c \in 1..Len(ForIn(data)) |->
              TypeScriptComponent(ForIn(data)[c].key, ForIn(data)[c].val)])

(***************************************************************************)
(* convertToJSDoc                                                          *)
(***************************************************************************)
\* The typeString of convertToJSDoc.
JSDocType(prop) ==
    IF PropertyIs(prop, <<"type">>, <<"boolean">>) THEN <<"boolean">>
    ELSE IF PropertyIs(prop, <<"type">>, <<"string">>) THEN <<"string">>
    ELSE IF PropertyIs(prop, <<"type">>, <<"enum">>)
    THEN <<"(">>
         \o (IF ~Falsy(PropertyOf(prop, <<"values">>))
             THEN QuotedValues(PropertyOf(prop, <<"values">>), "|")
             ELSE <<"string">>)
         \o <<")">>
    ELSE IF PropertyIs(prop, <<"type">>, <<"instance">>) THEN <<"ReactNode">>
    ELSE IF PropertyIs(prop, <<"type">>, <<"number">>) THEN <<"number">>
    ELSE <<"*">>

JSDocProps(name, props) ==
    IF HasKeys(props)
    THEN <<"/**", NL, " * @typedef {Object} ">> \o name \o <<"Props", NL>>
         \o Concat([i \in 1..Len(ForIn(props)) |->
                      <<" * @property {">> \o JSDocType(ForIn(props)[i].val) \o <<"} ">>
                      \o ForIn(props)[i].key \o <<NL>>])
         \o <<" */", NL, NL>>
    ELSE <<>>

JSDocAnatomy(name, anatomy) ==
    LET nodes == ForIn(anatomy)
    IN IF Len(nodes) > 0
       THEN <<"/**", NL, " * @typedef {Object} ">> \o name \o <<"Anatomy", NL>>
            \o Concat([i \in 1..Len(nodes) |->
                         <<" * @property {string} ">> \o nodes[i].key \o <<" - ">>
                         \o Interpolated(PropertyOf(nodes[i].val, <<"type">>))
                         \o <<" (">>
                         \o Interpolated(PropertyOf(nodes[i].val, <<"path">>))
                         \o <<")", NL>>])
            \o <<" */", NL, NL>>
       ELSE <<>>

\* The Styles and the Tokens block: one entry per element.
JSDocObjects(name, suffix, section) ==
    IF HasKeys(section)
    THEN <<"/**", NL, " * @typedef {Object} ">> \o name \o <<suffix, NL>>
         \o Concat([i \in 1..Len(ForIn(section)) |->
                      <<" * @property {Object} ">> \o ForIn(section)[i].key \o <<NL>>])
         \o <<" */", NL, NL>>
    ELSE <<>>

JSDocComponent(componentName, component) ==
    JSDocProps(cleanName(componentName), SectionOf(component, "props"))
    \o JSDocAnatomy(cleanName(componentName), SectionOf(component, "anatomy"))
    \o JSDocObjects(cleanName(componentName), "Styles", SectionOf(component, "elementStyles"))
    \o JSDocObjects(cleanName(componentName), "Tokens", SectionOf(component, "tokens"))

convertToJSDoc(data) ==
    Concat([c \in 1..Len(ForIn(data)) |->
              JSDocComponent(ForIn(data)[c].key, ForIn(data)[c].val)])

(***************************************************************************)
(* App: the effect that reformats the output                               *)
(***************************************************************************)
OutputFormats == {"json", "yaml", "typescript", "jsdoc"}

AnatomyViews == {"yaml", "tree"}

OptionKeys == {"property", "anatomy", "elementStyles", "figmaStyles", "tokens"}

\* useState({property: true, anatomy: true, ...})
InitialOptions == [k \in OptionKeys |-> TRUE]

\* component && component.anatomy && Object.keys(component.anatomy).length > 0
HasOwnAnatomy(component) ==
    /\ ~Falsy(component)
    /\ ~Falsy(PropertyOf(component, <<"anatomy">>))
    /\ HasKeys(PropertyOf(component, <<"anatomy">>))

\* Object.values(ExportedData).some(...)
hasAnatomy(data) == \E i \in 1..Len(ForIn(data)) : HasOwnAnatomy(ForIn(data)[i].val)

\* The template literal the anatomy is replaced by: a line break and the tree.
TreeText(anatomy) == Str(<<NL>> \o convertAnatomyToTree(anatomy).result)

\* { ...component } with the property k assigned.
Assigned(component, k, v) ==
    IF \E i \in 1..Len(component.entries) : component.entries[i].key = k
    THEN Obj([i \in 1..Len(component.entries) |->
                IF component.entries[i].key = k
                THEN [key |-> k, val |-> v]
                ELSE component.entries[i]])
    ELSE Obj(Append(component.entries, [key |-> k, val |-> v]))

\* The copy that is built for the tree view: every component copied, the
\* anatomy of a component that has one replaced by its tree.
modifiedData(data) ==
    Obj([i \in 1..Len(ForIn(data)) |->
           LET componentName == ForIn(data)[i].key
               component == ForIn(data)[i].val
           IN [key |-> componentName,
               val |-> IF HasOwnAnatomy(component)
                       THEN Assigned(component, <<"anatomy">>,
                                     TreeText(PropertyOf(component, <<"anatomy">>)))
                       ELSE component]])

\* The names of the components whose anatomy the loop converts.
ConvertedComponents(data) ==
    LET Converted(e) == HasOwnAnatomy(e.val)
        kept == SelectSeq(ForIn(data), Converted)
    IN [i \in 1..Len(kept) |-> kept[i].key]

\* switch (outputFormat)
Format(format, data) ==
    CASE format = "json" -> convertToJSON(data)
      [] format = "yaml" -> convertToYAML(data, 0)
      [] format = "typescript" -> convertToTypeScript(data)
      [] format = "jsdoc" -> convertToJSDoc(data)

\* The test with the view left out.
UsesTreeInAnyView(data, view, opts) == opts["anatomy"] /\ hasAnatomy(data)

\* anatomyView === 'tree' && options.anatomy && hasAnatomy
UsesTree(data, view, opts) == view = "tree" /\ opts["anatomy"] /\ hasAnatomy(data)

(***************************************************************************)
(* ExportProperties                                                        *)
(***************************************************************************)
\* propKey.split('#')[0]
propName(propKey) == Split(propKey, "#")[1]

\* propDef.variantOptions || []
variantOptions(propDef) ==
    LET given == PropertyOf(propDef, <<"variantOptions">>)
    IN IF Falsy(given) THEN Arr(<<>>) ELSE given

\* options.includes(s)
Includes(list, s) == \E i \in 1..Len(list.items) : list.items[i] = Str(s)

\* options.length === 2 && options.includes('true') && options.includes('false')
isBooleanVariant(list) ==
    /\ Len(list.items) = 2
    /\ Includes(list, <<"true">>)
    /\ Includes(list, <<"false">>)

\* propDef.defaultValue || ''
defaultValue(propDef) ==
    LET given == PropertyOf(propDef, <<"defaultValue">>)
    IN IF Falsy(given) THEN Str(<<>>) ELSE given

\* What is assigned to props[propName] for a definition; Undefined when the
\* type is none of the four and nothing is assigned.
PropEntry(propDef) ==
    IF PropertyIs(propDef, <<"type">>, <<"BOOLEAN">>)
    THEN Obj(<<Field("type", Str(<<"boolean">>))>>)
    ELSE IF PropertyIs(propDef, <<"type">>, <<"VARIANT">>)
    THEN IF isBooleanVariant(variantOptions(propDef))
         THEN Obj(<<Field("type", Str(<<"boolean">>))>>)
         ELSE Obj(<<Field("type", Str(<<"enum">>)), Field("values", variantOptions(propDef))>>)
    ELSE IF PropertyIs(propDef, <<"type">>, <<"TEXT">>)
    THEN Obj(<<Field("type", Str(<<"string">>)), Field("default", defaultValue(propDef))>>)
    ELSE IF PropertyIs(propDef, <<"type">>, <<"INSTANCE_SWAP">>)
    THEN Obj(<<Field("type", Str(<<"instance">>))>>)
    ELSE Undefined

RECURSIVE ExportPropertiesLoop(_, _, _)
\* The loop over the property definitions, from the k-th on.
ExportPropertiesLoop(props, definitions, k) ==
    IF k > Len(definitions) THEN props
    ELSE LET entry == PropEntry(definitions[k].val)
         IN ExportPropertiesLoop(
                IF IsUndefined(entry) THEN props
                ELSE Assigned(props, propName(definitions[k].key), entry),
                definitions, k + 1)

ExportProperties(componentProperties) ==
    IF Falsy(componentProperties) THEN Obj(<<>>)
    ELSE ExportPropertiesLoop(Obj(<<>>), ForIn(componentProperties), 1)

(***************************************************************************)
(* ExportAnatomy                                                           *)
(***************************************************************************)
\* The children of a component are a hierarchy of layers: layer i has the
\* name names[i] and the parent parents[i], 0 for a child of the component;
\* n.children holds the layers of parent n in the order of their numbers.
ChildrenOf(layers, n) ==
    LET IsChild(j) == layers.parents[j] = n
    IN SelectSeq([j \in 1..Len(layers.parents) |-> j], IsChild)

\* n.type: a layer with children is a frame, one without is a text.
LayerType(layers, n) == IF ChildrenOf(layers, n) = <<>> THEN <<"TEXT">> ELSE <<"FRAME">>

RECURSIVE traverseNode(_, _, _, _)
\* The records pushed by traverseNode(n, path, parentPath).
traverseNode(layers, n, path, parentPath) ==
    LET nodeName == layers.names[n]
        fullPath == IF path # <<>> THEN path \o <<SEP>> \o nodeName ELSE nodeName
        children == ChildrenOf(layers, n)
    IN <<[name |-> nodeName, type |-> LayerType(layers, n),
          path |-> fullPath, parentPath |-> parentPath]>>
       \o Concat([k \in 1..Len(children) |->
                     traverseNode(layers, children[k], fullPath, fullPath)])

\* The anatomy array of a component or of a variant.
traverseChildren(layers) ==
    LET children == ChildrenOf(layers, 0)
    IN Arr(Concat([k \in 1..Len(children) |-> traverseNode(layers, children[k], <<>>, <<>>)]))

RECURSIVE variantAnatomies(_, _, _)
\* The loop over the variants of a component set, from the k-th on.
variantAnatomies(collected, variants, k) ==
    IF k > Len(variants) THEN collected
    ELSE variantAnatomies(
             Assigned(collected, variants[k].name, traverseChildren(variants[k].layers)),
             variants, k + 1)

ExportAnatomy(node) ==
    IF node.type = "COMPONENT_SET" /\ Len(node.variants) > 0
    THEN variantAnatomies(Obj(<<>>), node.variants, 1)
    ELSE traverseChildren(node.layers)

(***************************************************************************)
(* sanitizeFilename and downloadMultipleMarkdownFiles                      *)
(***************************************************************************)
\* File names are strings of characters, one token each.
\* The characters of /[/\\:*?"<>|]/
InvalidFilenameChars == {"/", BACKSLASH, ":", "*", "?", QUOTE, "<", ">", "|"}

FILENAME_LIMIT == 255

\* name.replace(/[/\\:*?"<>|]/g, '')
RemoveInvalid(name) ==
    LET Valid(c) == c \notin InvalidFilenameChars IN SelectSeq(name, Valid)

\* s.replace(/\s+/g, '-'): a hyphen for each run of whitespace.
HyphenateSpaces(s) ==
    Concat([i \in 1..Len(s) |->
              IF s[i] \notin WhitespaceTokens THEN <<s[i]>>
              ELSE IF i > 1 /\ s[i - 1] \in WhitespaceTokens THEN <<>>
              ELSE <<"-">>])

\* s.substring(0, 255)
Truncated(s) == SubSeq(s, 1, IF Len(s) < FILENAME_LIMIT THEN Len(s) ELSE FILENAME_LIMIT)

sanitizeFilename(name) == Truncated(HyphenateSpaces(RemoveInvalid(name)))

\* The loop with a single test in place of the while.
finalFilenameOneTest(filename, usedFilenames, candidate, counter) ==
    IF candidate \in usedFilenames THEN filename \o <<"-", ToString(counter)>> ELSE candidate

RECURSIVE finalFilename(_, _, _, _)
\* while (usedFilenames.has(finalFilename)) { finalFilename =
\* `${filename}-${counter}`; counter++ }
finalFilename(filename, usedFilenames, candidate, counter) ==
    IF candidate \in usedFilenames
    THEN finalFilename(filename, usedFilenames,
                       filename \o <<"-", ToString(counter)>>, counter + 1)
    ELSE candidate

RECURSIVE zipFiles(_, _, _, _)
\* The loop over the components, from the k-th on: the names given so far and
\* the files of the archive, a file added under a name that is there
\* replacing the one that is there.
zipFiles(names, zip, components, k) ==
    IF k > Len(components) THEN [names |-> names, zip |-> zip]
    ELSE LET filename == sanitizeFilename(components[k].name)
             used == {names[i] : i \in 1..Len(names)}
             final == finalFilename(filename, used, filename, 2)
         IN zipFiles(Append(names, final),
                     Assigned(zip, final \o <<".md">>, components[k].markdown),
                     components, k + 1)

downloadMultipleMarkdownFiles(components) == zipFiles(<<>>, Obj(<<>>), components, 1)

(***************************************************************************)
(* sanitizeForPostMessage                                                  *)
(***************************************************************************)
\* The values given to sanitizeForPostMessage can share objects and arrays
\* and can contain themselves, so they are references into a heap: a
\* function from addresses to cells, a cell being an array or a plain object
\* with its items in order, the k-th entry of an object under the key k<k>.
FigmaMixed == [tag |-> "symbol", id |-> "figma.mixed"]
OtherSymbol == [tag |-> "symbol", id |-> "other"]
Function == [tag |-> "function"]
Date == [tag |-> "date"]
Ref(a) == [tag |-> "ref", addr |-> a]

CIRCULAR == <<"[Circular]">>
ISO_STRING == <<"1970-01-01T00:00:00.000Z">>

\* The calls of sanitizeForPostMessage that can be nested before the engine
\* throws a RangeError.
StackLimit == 4

\* The returns of sanitizeForPostMessage for a value that is neither an
\* array nor a plain object.
Sanitized(value) ==
    CASE value.tag = "symbol" -> Str(<<"mixed">>)
      [] value.tag = "function" -> Str(<<"[Function]">>)
      [] value.tag = "date" -> Str(ISO_STRING)
      [] OTHER -> value

\* The callers once the call they wait for returned value: the value is the
\* next item of the array or object the innermost caller is building.
Delivered(callers, value) ==
    IF callers = <<>> THEN callers
    ELSE [callers EXCEPT ![Len(callers)].out = Append(@, value)]

\* A call returns value to callers, the outermost call to the caller of the
\* function.
Return(callers, value) ==
    /\ stack' = Delivered(callers, value)
    /\ IF callers = <<>>
       THEN returned' = value /\ pc' = "return"
       ELSE returned' = returned /\ pc' = "walk"

\* The call sanitizeForPostMessage(value, seen) made with callers waiting,
\* up to its return or to the first call it makes.
Visit(value, callers) ==
    IF value.tag # "ref"
    THEN Return(callers, Sanitized(value)) /\ seen' = seen
    ELSE IF argument.heap[value.addr].kind = "object" /\ value.addr \in seen
    THEN Return(callers, Str(CIRCULAR)) /\ seen' = seen
    ELSE IF Len(callers) >= StackLimit
    THEN /\ pc' = "throw"
         /\ stack' = callers
         /\ UNCHANGED <<returned, seen>>
    ELSE /\ stack' = Append(callers, [addr |-> value.addr, out |-> <<>>])
         /\ seen' = IF argument.heap[value.addr].kind = "object"
                    THEN seen \cup {value.addr} ELSE seen
         /\ pc' = "walk"
         /\ returned' = returned

\* What the call that built out for the cell returns: value.map(...) for an
\* array, the object out for an object.
Built(cell, out) ==
    IF cell.kind = "array" THEN Arr(out)
    ELSE Obj([k \in 1..Len(out) |-> [key |-> <<"k" \o ToString(k)>>, val |-> out[k]]])

(***************************************************************************)
(* ExportFromComponent, ExportFromComponentSet, ExportMultipleComponents   *)
(***************************************************************************)
\* sanitizeForPostMessage on a value no array and no object of which is
\* reached twice: every object is new to seen.
RECURSIVE sanitizeForPostMessage(_)
sanitizeForPostMessage(value) ==
    IF "tag" \notin DOMAIN value THEN value
    ELSE CASE value.tag = "array" ->
                Arr([k \in 1..Len(value.items) |-> sanitizeForPostMessage(value.items[k])])
           [] value.tag = "object" ->
                Obj([k \in 1..Len(value.entries) |->
                       [key |-> value.entries[k].key,
                        val |-> sanitizeForPostMessage(value.entries[k].val)]])
           [] OTHER -> Sanitized(value)

\* figma.ui.postMessage({type: 'Exportion-result', data: safeResult})
sendSuccess(data) == [type |-> "Exportion-result", data |-> sanitizeForPostMessage(data)]

\* figma.ui.postMessage({type: 'error', message: message})
sendError(message) == [type |-> "error", message |-> message]

PROTO == <<"__proto__">>

\* target[key] = value on a plain object: the key __proto__ is the accessor
\* of Object.prototype, and assigning an object to it replaces the prototype
\* and adds no property.
PropertySet(target, key, value) ==
    IF key = PROTO THEN target ELSE Assigned(target, key, value)

RECURSIVE ObjectAssign(_, _, _)
\* Object.assign(target, source), from the k-th property of source on.
ObjectAssign(target, source, k) ==
    IF k > Len(source.entries) THEN target
    ELSE ObjectAssign(PropertySet(target, source.entries[k].key, source.entries[k].val),
                      source, k + 1)

\* The sections of a component for the options, in the order they are
\* assigned.  The styles and the tokens are what the host gives for the node.
Sections(node, opts) ==
    (IF opts.property
     THEN <<Field("props", ExportProperties(node.componentPropertyDefinitions))>> ELSE <<>>)
    \o (IF opts.anatomy THEN <<Field("anatomy", ExportAnatomy(node))>> ELSE <<>>)
    \o (IF opts.elementStyles THEN <<Field("elementStyles", node.elementStyles)>> ELSE <<>>)
    \o (IF opts.figmaStyles THEN <<Field("figmaStyles", node.figmaStyles)>> ELSE <<>>)
    \o (IF opts.tokens THEN <<Field("tokens", node.tokens)>> ELSE <<>>)

\* { [componentName]: {} } with the sections assigned.
ExportFromComponent(component, opts) ==
    Obj(<<[key |-> component.name, val |-> Obj(Sections(component, opts))]>>)

ExportFromComponentSet(componentSet, opts) ==
    Obj(<<[key |-> componentSet.name, val |-> Obj(Sections(componentSet, opts))]>>)

\* String(error) of the Error the timer of withTimeout rejects with.
TimeoutError(node) ==
    <<"Error: ">>
    \o (IF node.type = "COMPONENT" THEN <<"Export timeout for component: ">>
        ELSE <<"Export timeout for component set: ">>)
    \o node.name

\* String(error) of what a failing export rejects with.
ExportError == <<"Error: ", "export failed">>

NO_VALID == <<"No valid components found to Export.">>

RECURSIVE ExportMultipleLoop(_, _, _, _, _, _)
\* The loop over componentIds, from the k-th on, and what follows it; an
\* awaited promise that rejects ends in the catch.  race[k] tells how the
\* race of withTimeout ends for the k-th id.
ExportMultipleLoop(results, componentIds, opts, nodes, race, k) ==
    IF k > Len(componentIds)
    THEN IF Len(results.entries) = 0 THEN sendError(NO_VALID) ELSE sendSuccess(results)
    ELSE LET node == nodes[componentIds[k]]
         IN IF node = Null
            THEN ExportMultipleLoop(results, componentIds, opts, nodes, race, k + 1)
            ELSE IF node.type \notin {"COMPONENT", "COMPONENT_SET"}
            THEN ExportMultipleLoop(results, componentIds, opts, nodes, race, k + 1)
            ELSE IF race[k] = "timeout"
            THEN sendError(<<"Export failed: ">> \o TimeoutError(node))
            ELSE IF race[k] = "rejected"
            THEN sendError(<<"Export failed: ">> \o ExportError)
            ELSE ExportMultipleLoop(
                     ObjectAssign(results,
                                  IF node.type = "COMPONENT"
                                  THEN ExportFromComponent(node, opts)
                                  ELSE ExportFromComponentSet(node, opts), 1),
                     componentIds, opts, nodes, race, k + 1)

\* The message ExportMultipleComponents posts.
ExportMultipleComponents(componentIds, opts, nodes, race) ==
    ExportMultipleLoop(Obj(<<>>), componentIds, opts, nodes, race, 1)

(***************************************************************************)
(* ExportComponentProperties and withTimeout                               *)
(***************************************************************************)
NO_SELECTION == <<"Please select a component or component set.">>
MULTIPLE_SELECTION == <<"Please select only one component or component set.">>
WrongType(node) ==
    <<"Selected node must be a Component or Component Set. You selected: ", node.type>>
TIMED_OUT == <<"Error: ", "Export operation timed out after 30 seconds">>

\* ExportComponentProperties up to its first await: the messages it posts,
\* none when it waits for the race of withTimeout.
BeforeRace(nodes, selected) ==
    IF Len(selected) = 0 THEN <<sendError(NO_SELECTION)>>
    ELSE IF Len(selected) > 1 THEN <<sendError(MULTIPLE_SELECTION)>>
    ELSE IF nodes[selected[1]].type \in {"COMPONENT", "COMPONENT_SET"} THEN <<>>
    ELSE <<sendError(WrongType(nodes[selected[1]]))>>

\* The race is won by the export: the handler goes on after its await.
AfterExport(node, opts) ==
    <<sendSuccess(IF node.type = "COMPONENT" THEN ExportFromComponent(node, opts)
                  ELSE ExportFromComponentSet(node, opts))>>

\* The race ends with the export rejecting: the catch.
AfterRejection == <<sendError(<<"Export failed: ">> \o ExportError)>>

\* The race is won by the timer, which rejects: the catch.
AfterTimer == <<sendError(<<"Export failed: ">> \o TIMED_OUT)>>

\* The export that settles after the timer would send its result.
AfterTimeoutSent(node, opts) == AfterExport(node, opts)

\* The export settles after the timer rejected: the promise of the race is
\* settled already, the handler has ended, and nothing is posted.
AfterTimeout(node, opts) == <<>>

(***************************************************************************)
(* getComponentsHash and getAllComponents                                  *)
(***************************************************************************)
\* A document is the sequence of its published components that are not
\* hidden, in the order the pages are walked: [id, name, type] each, ids of
\* one length in increasing order.

\* findComponents over the pages: the list that is sent and cached.
findComponents(doc) == Arr(doc)

\* getComponentsHash: the strings id:name, sorted and joined with '|'.  The
\* sort leaves the order, the ids being in increasing order.
getComponentsHash(doc) ==
    Concat([k \in 1..Len(doc) |->
              (IF k = 1 THEN <<>> ELSE <<"|">>) \o <<doc[k].id, ":", doc[k].name>>])

\* figma.fileKey || 'unknown'
FileKeyOr(key) == IF key = Undefined THEN Str(<<"unknown">>) ELSE key

\* cachedData && cachedData.fileKey === fileKey &&
\* Array.isArray(cachedData.components)
ValidCache(cachedData, key) ==
    /\ cachedData # Undefined
    /\ cachedData.fileKey = FileKeyOr(key)
    /\ IsArray(cachedData.components)

\* The message 'components-list'.
ComponentsList(list, cached) ==
    [type |-> "components-list", components |-> list, fromCache |-> cached]

\* The hash with the document read when the awaited promise is resumed.
HashAtResume(atCall, atResume) == getComponentsHash(atResume)

\* const componentsHash = await getComponentsHash(): the function has no
\* await of its own, so the document is read when it is called, before the
\* handler yields.
AwaitedHash(atCall, atResume) == getComponentsHash(atCall)

(***************************************************************************)
(* Inputs                                                                  *)
(***************************************************************************)
\* The type an element of a given name carries; an element named "B" has no
\* type property.
TypedNames == {"A", "C"}
ElementType(n) == IF n = "A" THEN <<"FRAME">> ELSE <<"TEXT">>

WithType(rec, n) == IF n \in TypedNames THEN rec @@ ("type" :> ElementType(n)) ELSE rec

\* Explicit-sequence records.  The link of record i says where its paths come
\* from: j in 1..i-1 makes it a child of record j, 0 a root, -1 a record
\* that names its own path as parent, -2 a child of the path "A" whether or
\* not a record of that path exists.
Links == (0 - 2) .. (MaxLen - 1)

RECURSIVE PathOf(_, _, _)
PathOf(nm, lk, i) ==
    IF lk[i] > 0 THEN PathOf(nm, lk, lk[i]) \o <<SEP, nm[i]>>
    ELSE IF lk[i] = 0 - 2 THEN <<"A", SEP, nm[i]>>
    ELSE <<nm[i]>>

ParentPathOf(nm, lk, i) ==
    IF lk[i] > 0 THEN PathOf(nm, lk, lk[i])
    ELSE IF lk[i] = 0 - 2 THEN <<"A">>
    ELSE IF lk[i] = 0 - 1 THEN <<nm[i]>>
    ELSE <<>>

SequenceRecord(nm, lk, i) ==
    WithType([name |-> <<nm[i]>>,
              path |-> PathOf(nm, lk, i),
              parentPath |-> ParentPathOf(nm, lk, i)], nm[i])

SequenceAnatomy(nm, lk) == Arr([i \in 1..Len(nm) |-> SequenceRecord(nm, lk, i)])

\* Flat mappings: distinct element names as keys, in any key order, the path
\* of each ending in its name.
Prefixes == UNION {[1..d -> MappingNames] : d \in 0..(MaxDepth - 1)}

MappingValue(n, pre) ==
    WithType([path |-> Join([i \in 1..Len(pre) + 1 |->
                               IF i <= Len(pre) THEN <<pre[i]>> ELSE <<n>>], SEP)], n)

MappingAnatomy(keys, pre) ==
    Obj([i \in 1..Len(keys) |-> [key |-> <<keys[i]>>, val |-> MappingValue(keys[i], pre[i])]])

\* Variant mappings: variants V1, V2, ... in key order, each with an anatomy
\* of the pool; all of them sequences, or all of them flat mappings.
VariantName(i) == <<"V", ToString(i)>>

ElemA == [name |-> <<"A">>, type |-> <<"FRAME">>, path |-> <<"A">>, parentPath |-> <<>>]
ElemB == [name |-> <<"B">>, type |-> <<"TEXT">>, path |-> <<"A", SEP, "B">>, parentPath |-> <<"A">>]

VariantSequences ==
    { <<>>,
      <<ElemA>>,
      <<[ElemA EXCEPT !.parentPath = <<"B">>]>>,
      <<[ElemA EXCEPT !.type = <<"TEXT">>]>>,
      <<[ElemA EXCEPT !.name = <<"B">>]>>,
      <<[ElemA EXCEPT !.path = <<"B">>]>>,
      <<ElemA, ElemB>>,
      <<ElemB, ElemA>>,
      <<ElemA, [ElemB EXCEPT !.parentPath = <<>>]>> }

VariantMappings ==
    { <<[key |-> <<"A">>, val |-> [type |-> <<"FRAME">>, path |-> <<"A">>]]>>,
      <<[key |-> <<"A">>, val |-> [type |-> <<"TEXT">>, path |-> <<"A">>]]>>,
      <<[key |-> <<"A">>, val |-> [type |-> <<"FRAME">>, path |-> <<"A">>]],
        [key |-> <<"B">>, val |-> [type |-> <<"TEXT">>, path |-> <<"A", SEP, "B">>]]>>,
      <<[key |-> <<"B">>, val |-> [type |-> <<"TEXT">>, path |-> <<"A", SEP, "B">>]],
        [key |-> <<"A">>, val |-> [type |-> <<"FRAME">>, path |-> <<"A">>]]>> }

VariantMapping(anats) ==
    Obj([i \in 1..Len(anats) |-> [key |-> VariantName(i), val |-> anats[i]]])

\* Component metadata.  A component has the sections that are given; the
\* props are p1, p2, ... in key order.
MaxProps == 2        \* props of a component
MaxStyleAttrs == 2   \* style attributes of an element
MaxStr == 3          \* characters of a scalar written as nested text

ComponentName == <<"My", " ", "Button">>

Component(sections) == Obj(<<[key |-> ComponentName, val |-> Obj(sections)]>>)

\* Prop descriptors: the five declared kinds, an enum with two values, an
\* enum with an empty list of values, a kind that is not declared and a
\* descriptor without kind.
PropDescriptors ==
    { Obj(<<Field("type", Str(<<k>>))>>) :
          k \in {"boolean", "string", "number", "instance", "enum", "color"} }
    \cup { Obj(<<>>),
           Obj(<<Field("type", Str(<<"enum">>)),
                 Field("values", Arr(<<Str(<<"sm">>), Str(<<"md">>)>>))>>),
           Obj(<<Field("type", Str(<<"enum">>)), Field("values", Arr(<<>>))>>) }

PropName(i) == <<"p", ToString(i)>>

PropsOf(descs) == Obj([i \in 1..Len(descs) |-> [key |-> PropName(i), val |-> descs[i]]])

\* The sections a component may have: none, an empty one, one with a member.
PropsChoices == {Undefined, Obj(<<>>), PropsOf(<<Obj(<<Field("type", Str(<<"boolean">>))>>)>>)}

AnatomyChoices ==
    {Undefined, Obj(<<>>), Arr(<<ElemA>>),
     Obj(<<[key |-> <<"A">>, val |-> [type |-> <<"FRAME">>, path |-> <<"A">>]]>>)}

StylesChoices ==
    {Undefined, Obj(<<>>), Obj(<<Field("Box", Obj(<<>>))>>),
     Obj(<<Field("Box", Obj(<<Field("width", Num(8))>>))>>)}

TokensChoices ==
    {Undefined, Obj(<<>>), Obj(<<Field("Label", Obj(<<>>))>>),
     Obj(<<Field("Label", Obj(<<Field("color", Str(<<"primary">>))>>))>>)}

\* The component with the given sections, an undefined one left out.
SectionsOf(props, anatomy, elementStyles, tokens) ==
    LET all == <<Field("props", props), Field("anatomy", anatomy),
                 Field("elementStyles", elementStyles), Field("tokens", tokens)>>
        Given(e) == ~IsUndefined(e.val)
    IN SelectSeq(all, Given)

\* Style records: up to MaxStyleAttrs of the nine attributes, each with a
\* value that is zero, positive or the empty string.
StyleValues == {Num(0), Num(8), Str(<<>>)}

StyleRecords ==
    UNION { { Obj([i \in 1..n |-> [key |-> StyleAttributes[at[i]], val |-> vals[i]]]) :
                at \in {a \in [1..n -> 1..Len(StyleAttributes)] :
                            \A i, j \in 1..n : i < j => a[i] < a[j]},
                vals \in [1..n -> StyleValues] } : n \in 0..MaxStyleAttrs }

\* Strings of up to MaxStr characters, among them the ones the nested-text
\* format reserves.
Chars == {"a", ":", "#", NL, " ", QUOTE}

Scalars == UNION {[1..n -> Chars] : n \in 0..MaxStr}

\* Exported data: up to MaxComponents components Comp1, Comp2, ... in key
\* order, each without anatomy, with an empty one or with a sequence of two
\* elements.
MaxComponents == 2

ExportedName(i) == <<"Comp", ToString(i)>>

ComponentChoices ==
    { Obj(<<Field("props", PropsOf(<<Obj(<<Field("type", Str(<<"boolean">>))>>)>>))>>),
      Obj(<<Field("anatomy", Arr(<<>>))>>),
      Obj(<<Field("props", PropsOf(<<Obj(<<Field("type", Str(<<"string">>))>>)>>)),
            Field("anatomy", Arr(<<ElemA, ElemB>>))>>) }

ExportedChoices ==
    UNION { { Obj([i \in 1..n |-> [key |-> ExportedName(i), val |-> c[i]]]) :
                c \in [1..n -> ComponentChoices] } : n \in 0..MaxComponents }

\* Property definitions of a component: a variant property is keyed by its
\* name, a property of another type by its name, '#' and an id.  Properties
\* of different types may have the same name.
VariantKeys == {<<"Size">>, <<"Label">>}

SuffixedKeys == {<<"Label", "#", "1:0">>, <<"Label", "#", "2:0">>, <<"Icon", "#", "3:0">>}

Options(values) == Arr([i \in 1..Len(values) |-> Str(<<values[i]>>)])

VariantDefinitions ==
    { Obj(<<Field("type", Str(<<"VARIANT">>)), Field("variantOptions", Options(o))>>) :
          o \in {<<"sm", "md">>, <<"md", "sm">>, <<"true", "false">>, <<"false", "true">>,
                 <<"true", "false", "auto">>} }
    \cup {Obj(<<Field("type", Str(<<"VARIANT">>))>>)}

SuffixedDefinitions ==
    { Obj(<<Field("type", Str(<<"BOOLEAN">>)), Field("defaultValue", Bool(FALSE))>>),
      Obj(<<Field("type", Str(<<"TEXT">>)), Field("defaultValue", Str(<<"Hi">>))>>),
      Obj(<<Field("type", Str(<<"TEXT">>)), Field("defaultValue", Str(<<>>))>>),
      Obj(<<Field("type", Str(<<"INSTANCE_SWAP">>)), Field("defaultValue", Str(<<"7:1">>))>>),
      Obj(<<Field("type", Str(<<"SLOT">>))>>) }

PropertyDefinition ==
    { [key |-> k, val |-> d] : k \in VariantKeys, d \in VariantDefinitions }
    \cup { [key |-> k, val |-> d] : k \in SuffixedKeys, d \in SuffixedDefinitions }

\* Up to MaxProps definitions with different keys, and no definitions at all.
ComponentPropertyDefinitions ==
    {Undefined}
    \cup UNION { { Obj(defs) : defs \in { d \in [1..n -> PropertyDefinition] :
                                            \A i, j \in 1..n : d[i].key = d[j].key => i = j } } :
                 n \in 0..MaxProps }

\* Layer hierarchies of up to MaxLen layers, numbered in depth-first
\* pre-order: the parent of a layer is the layer before it, an ancestor of
\* that one, or the component.  Layers may share a name, and a name may be
\* empty.
LayerNames == {<<"A">>, <<"B">>, <<>>}

RECURSIVE AncestorsOrSelf(_, _)
AncestorsOrSelf(parents, i) ==
    IF i = 0 THEN {0} ELSE {i} \cup AncestorsOrSelf(parents, parents[i])

IsPreOrder(parents) ==
    \A i \in 1..Len(parents) :
        /\ parents[i] < i
        /\ parents[i] \in AncestorsOrSelf(parents, i - 1)

Hierarchies ==
    UNION { { [names |-> nm, parents |-> pr] :
                nm \in [1..n -> LayerNames],
                pr \in {p \in [1..n -> 0..(n - 1)] : IsPreOrder(p)} } : n \in 0..MaxLen }

NoLayers == [names |-> <<>>, parents |-> <<>>]

\* A component with its layers, and a component set of two variants.
ComponentNodes ==
    { [type |-> "COMPONENT", layers |-> h, variants |-> <<>>] : h \in Hierarchies }
    \cup { [type |-> "COMPONENT_SET", layers |-> NoLayers,
            variants |-> <<[name |-> VariantName(1), layers |-> h],
                           [name |-> VariantName(2), layers |-> NoLayers]>>] :
              h \in {g \in Hierarchies : Len(g.names) <= 1} }

\* Up to MaxFiles components for the archive, the markdown of the k-th being
\* the text k; names that are equal, that are equal once sanitized, and that
\* are the name generated for an earlier one.
MaxFiles == 3

ArchiveNames ==
    { <<"B">>, <<"B", "-", "2">>, <<"B", " ", "2">>, <<"B", " ", " ", "2">>, <<"B", "/">>,
      <<"B", "-", "2", "-", "2">>, <<"B", "-", "3">>, <<>> }

ArchiveComponents ==
    UNION { { [k \in 1..n |-> [name |-> nm[k], markdown |-> Str(<<ToString(k)>>)]] :
                nm \in [1..n -> ArchiveNames] } : n \in 0..MaxFiles }

\* Heaps of two cells, the first of up to two items and the second of up to
\* one, and a value that is not a reference or refers to the first cell.
Addresses == {"o1", "o2"}
ItemCounts == [o1 |-> 0..2, o2 |-> 0..1]

HeapValues ==
    {FigmaMixed, OtherSymbol, Function, Date, Null, Str(<<"x">>)} \cup {Ref(a) : a \in Addresses}

CellsAt(a) ==
    { [kind |-> kind, items |-> items] :
        kind \in {"array", "object"},
        items \in UNION { [1..n -> HeapValues] : n \in ItemCounts[a] } }

Heaps == { [o1 |-> c1, o2 |-> c2] : c1 \in CellsAt("o1"), c2 \in CellsAt("o2") }

SanitizeArguments ==
    { [heap |-> h, value |-> v] : h \in Heaps, v \in HeapValues \ {Ref("o2")} }

\* The nodes of the document by id: two components and a component set, two
\* of them with the same name, a component named __proto__ and a frame.  An id
\* that is not there resolves to null.
NodeOf(type, name, definition, style) ==
    [type |-> type, name |-> name,
     componentPropertyDefinitions |-> Obj(<<[key |-> <<"Size">>, val |-> definition]>>),
     layers |-> NoLayers, variants |-> <<>>,
     elementStyles |-> Obj(<<Field("fontSize", style)>>),
     figmaStyles |-> Obj(<<>>), tokens |-> Obj(<<>>)]

SizeDefinition(list) ==
    Obj(<<Field("type", Str(<<"VARIANT">>)), Field("variantOptions", Options(list))>>)

DocumentNodes ==
    [n1 |-> NodeOf("COMPONENT", <<"A">>, SizeDefinition(<<"sm", "md">>), FigmaMixed),
     n2 |-> NodeOf("COMPONENT_SET", <<"A">>, SizeDefinition(<<"md", "lg">>), Num(12)),
     n3 |-> NodeOf("COMPONENT", <<"B">>, SizeDefinition(<<"sm">>), Num(14)),
     n4 |-> NodeOf("COMPONENT", PROTO, SizeDefinition(<<"lg">>), Num(16)),
     n5 |-> NodeOf("FRAME", <<"F">>, SizeDefinition(<<"sm">>), Num(18)),
     n0 |-> Null]

NodeIds == DOMAIN DocumentNodes

Exportable(id) ==
    /\ DocumentNodes[id] # Null
    /\ DocumentNodes[id].type \in {"COMPONENT", "COMPONENT_SET"}

\* Up to MaxIds ids, each with the end of its race: the export resolves, the
\* export rejects, or the timer rejects first.
MaxIds == 3

Requested ==
    { [id |-> id, race |-> r] : id \in NodeIds, r \in {"resolved", "rejected", "timeout"} }

Requests ==
    UNION { { q \in [1..n -> Requested] :
                \A k \in 1..n : ~Exportable(q[k].id) => q[k].race = "resolved" } :
            n \in 0..MaxIds }

MultipleOptions ==
    { [k \in OptionKeys |-> k = "property"], [k \in OptionKeys |-> k # "tokens"] }

\* The selections of the page, as the ids of the selected nodes.
Selections == {<<>>, <<"n1">>, <<"n2">>, <<"n5">>, <<"n1", "n3">>}

\* The export requests of a run.
MaxRequests == 1

\* The component that can be ticked in the list.
ListedIds == {"n1"}

Tabs == {"selection", "components"}

\* The file the plugin runs in, in three versions, and the list of another
\* file.
Versions ==
    { <<[id |-> "1:1", name |-> "A", type |-> "COMPONENT"]>>,
      <<[id |-> "1:1", name |-> "B", type |-> "COMPONENT"]>>,
      <<[id |-> "1:1", name |-> "A", type |-> "COMPONENT"],
        [id |-> "1:2", name |-> "B", type |-> "COMPONENT_SET"]>> }

OtherFile == <<[id |-> "7:7", name |-> "X", type |-> "COMPONENT"]>>

\* The keys of the two files, where the host gives them.
THIS_KEY == Str(<<"key1">>)
OTHER_KEY == Str(<<"key2">>)

\* The record getAllComponents stores for a document under a key, and what
\* the storage can hold when the plugin is started: nothing, the record of
\* an earlier run in this file, the record of a run in the other file, or a
\* record without a list.
CacheRecord(key, doc) ==
    [fileKey |-> key, hash |-> getComponentsHash(doc), components |-> findComponents(doc)]

StoredBefore(key) ==
    {Undefined}
    \cup { CacheRecord(FileKeyOr(key), doc) : doc \in Versions }
    \cup { CacheRecord(FileKeyOr(k), OtherFile) : k \in {OTHER_KEY, Undefined} }
    \cup { [fileKey |-> FileKeyOr(key), hash |-> <<>>, components |-> Undefined] }

\* The requests for the component list of a run.
MaxLoads == 2

(***************************************************************************)
(* Specification                                                           *)
(***************************************************************************)
\* No function of the plugin, no export request and no cache request is part
\* of the run.
NoWalk ==
    /\ stack = <<>>
    /\ seen = {}

\* No export was asked for.
NoExport ==
    /\ isExporting = FALSE
    /\ activeTab = "selection"
    /\ selectedComponentIds = <<>>
    /\ selection = <<>>
    /\ toHost = <<>>
    /\ toUI = <<>>
    /\ tasks = <<>>

\* No component list was asked for.
NoCache ==
    /\ document = <<>>
    /\ fileKey = Undefined
    /\ clientStorage = Undefined
    /\ loaders = <<>>
    /\ componentsList = Arr(<<>>)
    /\ isLoadingComponents = FALSE
    /\ fromCache = FALSE

NoOther == NoExport /\ NoCache

\* What the calls of one function leave alone.
idleVars == <<walkVars, otherVars>>

NoIdle == NoWalk /\ NoOther

NoRest ==
    /\ argument = Undefined
    /\ returned = Undefined
    /\ NoIdle

\* The App is not part of the run.
NoApp ==
    /\ ExportedData = Null
    /\ outputFormat = "yaml"
    /\ anatomyView = "yaml"
    /\ options = InitialOptions
    /\ output = <<>>
    /\ treeCalls = <<>>

\* No serializer is part of the run.
NoSerializer ==
    /\ metadata = Undefined
    /\ serializer = "none"
    /\ serialized = <<>>

\* No call of convertAnatomyToTree is part of the run.
NoTreeCall ==
    /\ anatomyData = Undefined
    /\ built = <<>>
    /\ anatomyGroups = <<>>
    /\ result = <<>>

Called(data) ==
    /\ anatomyData = data
    /\ pc = "call"
    /\ built = <<>>
    /\ anatomyGroups = <<>>
    /\ result = <<>>
    /\ NoSerializer
    /\ NoApp
    /\ NoRest

InitSequence ==
    \E n \in 0..MaxLen : \E nm \in [1..n -> Names] : \E lk \in [1..n -> Links] :
        /\ \A i \in 1..n : lk[i] < i
        /\ Called(SequenceAnatomy(nm, lk))

InitMapping ==
    \E n \in 0..Cardinality(MappingNames) :
        \E keys \in [1..n -> MappingNames] : \E pre \in [1..n -> Prefixes] :
            /\ \A i, j \in 1..n : keys[i] = keys[j] => i = j
            /\ Called(MappingAnatomy(keys, pre))

InitVariants ==
    \E n \in 1..MaxVariants :
        \/ \E a \in [1..n -> VariantSequences] :
              Called(VariantMapping([i \in 1..n |-> Arr(a[i])]))
        \/ \E a \in [1..n -> VariantMappings] :
              Called(VariantMapping([i \in 1..n |-> Obj(a[i])]))

\* Values that are no anatomy: null, undefined, numbers, strings, booleans.
NonObjects ==
    {Null, Undefined, Num(0), Num(1), Str(<<>>), Str(<<"A">>), Bool(FALSE), Bool(TRUE)}

\* Variant mappings whose variants have no elements, in either shape.
EmptyAnatomies == {Arr(<<>>), Obj(<<>>)}

\* Mappings with a value that is no element record: a flat mapping with an
\* element that has no path, one with a null element, and a variant mapping
\* with a null variant behind an empty one.
Malformed ==
    { Obj(<<[key |-> <<"A">>, val |-> [type |-> <<"FRAME">>]]>>),
      Obj(<<[key |-> <<"A">>, val |-> Null]>>),
      Obj(<<[key |-> VariantName(1), val |-> Arr(<<>>)],
            [key |-> VariantName(2), val |-> Null]>>) }

InitAbsent ==
    \/ \E v \in NonObjects \cup Malformed : Called(v)
    \/ \E n \in 1..MaxVariants : \E a \in [1..n -> EmptyAnatomies] :
          Called(VariantMapping(a))

\* Single anatomies, in the explicit-sequence and in the flat-mapping shape,
\* and the values without elements.
Init == InitSequence \/ InitMapping \/ InitAbsent

ConvertAnatomyToTree ==
    /\ pc = "call"
    /\ LET r == convertAnatomyToTree(anatomyData)
       IN /\ built' = r.built
          /\ anatomyGroups' = r.anatomyGroups
          /\ result' = r.result
          /\ pc' = IF r.thrown THEN "throw" ELSE "return"
    /\ UNCHANGED <<anatomyData, metadata, serializer, serialized, appVars, restVars>>

Next == ConvertAnatomyToTree

\* A serializer is about to be called on data.
Serializing(data) ==
    /\ metadata = data
    /\ serializer = "none"
    /\ serialized = <<>>
    /\ pc = "call"
    /\ NoTreeCall
    /\ NoApp
    /\ NoRest

InitProps ==
    \E n \in 0..MaxProps : \E descs \in [1..n -> PropDescriptors] :
        Serializing(Component(<<Field("props", PropsOf(descs))>>))

InitSections ==
    \E props \in PropsChoices : \E anatomy \in AnatomyChoices :
        \E elementStyles \in StylesChoices : \E tokens \in TokensChoices :
            Serializing(Component(SectionsOf(props, anatomy, elementStyles, tokens)))

InitStyles ==
    \E style \in StyleRecords :
        Serializing(Component(<<Field("elementStyles", Obj(<<Field("Box", style)>>))>>))

InitScalars ==
    \E s \in Scalars :
        Serializing(Component(<<Field("description", Str(s)), Field("anatomy", Arr(<<Str(s)>>))>>))

InitSerialize == InitProps \/ InitSections \/ InitStyles \/ InitScalars

ConvertToJSON ==
    /\ pc = "call"
    /\ serialized' = convertToJSON(metadata)
    /\ serializer' = "json"
    /\ pc' = "return"
    /\ UNCHANGED <<anatomyData, built, anatomyGroups, result, metadata, appVars, restVars>>

ConvertToYAML ==
    /\ pc = "call"
    /\ serialized' = convertToYAML(metadata, 0)
    /\ serializer' = "yaml"
    /\ pc' = "return"
    /\ UNCHANGED <<anatomyData, built, anatomyGroups, result, metadata, appVars, restVars>>

ConvertToTypeScript ==
    /\ pc = "call"
    /\ serialized' = convertToTypeScript(metadata)
    /\ serializer' = "typescript"
    /\ pc' = "return"
    /\ UNCHANGED <<anatomyData, built, anatomyGroups, result, metadata, appVars, restVars>>

ConvertToJSDoc ==
    /\ pc = "call"
    /\ serialized' = convertToJSDoc(metadata)
    /\ serializer' = "jsdoc"
    /\ pc' = "return"
    /\ UNCHANGED <<anatomyData, built, anatomyGroups, result, metadata, appVars, restVars>>

NextSerialize == ConvertToJSON \/ ConvertToYAML \/ ConvertToTypeScript \/ ConvertToJSDoc

\* The calls of the four schema serializers on component metadata.
SpecSerialize == InitSerialize /\ [][NextSerialize]_vars

\* The App after it is mounted: nothing exported yet, and the effect has run
\* once and shows nothing.
InitApp ==
    /\ ExportedData = Null
    /\ outputFormat = "yaml"
    /\ anatomyView = "yaml"
    /\ options = InitialOptions
    /\ output = <<>>
    /\ treeCalls = <<>>
    /\ metadata = Undefined
    /\ serializer = "none"
    /\ serialized = <<>>
    /\ pc = "return"
    /\ NoTreeCall
    /\ NoRest

\* The effect, run after a state change that leaves the App with the given
\* values: the value handed to the serializer, the serializer, the text it
\* returns and the text that is shown; nothing is shown while there is no
\* exported data.
ReformatOutput(data, format, view, opts) ==
    /\ treeCalls' = IF ~Falsy(data) /\ UsesTree(data, view, opts)
                    THEN ConvertedComponents(data) ELSE <<>>
    /\ metadata' = IF Falsy(data) THEN Undefined
                   ELSE IF UsesTree(data, view, opts) THEN modifiedData(data)
                   ELSE data
    /\ serializer' = IF Falsy(data) THEN "none" ELSE format
    /\ serialized' = IF Falsy(data) THEN <<>> ELSE Format(format, metadata')
    /\ output' = serialized'
    /\ UNCHANGED <<anatomyData, pc, built, anatomyGroups, result>>

\* The message 'Exportion-result' of the plugin: setExportedData(msg.data).
ExportionResult ==
    \E data \in ExportedChoices :
        /\ ExportedData' = data
        /\ UNCHANGED <<outputFormat, anatomyView, options, restVars>>
        /\ ReformatOutput(data, outputFormat, anatomyView, options)

\* The format select: setOutputFormat(v).
SetOutputFormat ==
    \E v \in OutputFormats :
        /\ outputFormat' = v
        /\ UNCHANGED <<ExportedData, anatomyView, options, restVars>>
        /\ ReformatOutput(ExportedData, v, anatomyView, options)

\* The tree view toggle, which is there when there is output, the anatomy
\* option is set and a component has an anatomy:
\* setAnatomyView(checked ? 'tree' : 'yaml').
SetAnatomyView ==
    /\ output # <<>>
    /\ options["anatomy"]
    /\ ~Falsy(ExportedData)
    /\ hasAnatomy(ExportedData)
    /\ \E checked \in BOOLEAN :
        LET view == IF checked THEN "tree" ELSE "yaml"
        IN /\ anatomyView' = view
           /\ UNCHANGED <<ExportedData, outputFormat, options, restVars>>
           /\ ReformatOutput(ExportedData, outputFormat, view, options)

\* The checkboxes of the options: there is none for figmaStyles.
CheckboxKeys == {"property", "anatomy", "elementStyles", "tokens"}

\* The update without the branch for the styles.
handleOptionChangeAlone(prev, key) == [prev EXCEPT ![key] = ~prev[key]]

\* The update handleOptionChange(key) gives to setOptions: the option is
\* toggled, figmaStyles follows elementStyles.
handleOptionChange(prev, key) ==
    IF key = "elementStyles"
    THEN [prev EXCEPT !["elementStyles"] = ~prev["elementStyles"],
                      !["figmaStyles"] = ~prev["elementStyles"]]
    ELSE [prev EXCEPT ![key] = ~prev[key]]

\* A checkbox of keys is clicked.
OptionChange(keys) ==
    \E key \in keys :
        LET toggled == handleOptionChange(options, key)
        IN /\ options' = toggled
           /\ UNCHANGED <<ExportedData, outputFormat, anatomyView, restVars>>
           /\ ReformatOutput(ExportedData, outputFormat, anatomyView, toggled)

\* handleOptionChange(key) for the checkboxes the text that is shown depends
\* on: anatomy and styles.
HandleOptionChange == OptionChange({"anatomy", "elementStyles"})

NextApp == ExportionResult \/ SetOutputFormat \/ SetAnatomyView \/ HandleOptionChange

\* The App: exports arrive, and the user changes format, view and options.
SpecApp == InitApp /\ [][NextApp]_vars

\* Nothing but a function of the plugin is part of the run.
NoUI ==
    /\ NoTreeCall
    /\ NoSerializer
    /\ NoApp

uiVars ==
    <<anatomyData, built, anatomyGroups, result, metadata, serializer, serialized, appVars>>

InitProperties ==
    /\ argument \in ComponentPropertyDefinitions
    /\ returned = Undefined
    /\ pc = "call"
    /\ NoUI
    /\ NoIdle

CallExportProperties ==
    /\ pc = "call"
    /\ returned' = ExportProperties(argument)
    /\ pc' = "return"
    /\ UNCHANGED <<argument, uiVars, idleVars>>

\* The calls of ExportProperties on the property definitions of a component.
SpecProperties == InitProperties /\ [][CallExportProperties]_vars

InitAnatomy ==
    /\ argument \in ComponentNodes
    /\ returned = Undefined
    /\ pc = "call"
    /\ NoUI
    /\ NoIdle

CallExportAnatomy ==
    /\ pc = "call"
    /\ returned' = ExportAnatomy(argument)
    /\ pc' = "exported"
    /\ UNCHANGED <<argument, uiVars, idleVars>>

\* buildTreeFromAnatomy on the anatomy that was exported, for a component
\* set on that of each variant.
CallBuildTreeFromAnatomy ==
    /\ pc = "exported"
    /\ built' = IF IsArray(returned) THEN <<buildTreeFromAnatomy(returned)>>
                ELSE [i \in 1..Len(returned.entries) |->
                         buildTreeFromAnatomy(returned.entries[i].val)]
    /\ pc' = "return"
    /\ UNCHANGED <<argument, returned, anatomyData, anatomyGroups, result, metadata,
                   serializer, serialized, appVars, idleVars>>

NextAnatomy == CallExportAnatomy \/ CallBuildTreeFromAnatomy

\* The anatomy of a component is exported and the tree is built from it.
SpecAnatomy == InitAnatomy /\ [][NextAnatomy]_vars

InitArchive ==
    /\ argument \in ArchiveComponents
    /\ returned = Undefined
    /\ pc = "call"
    /\ NoUI
    /\ NoIdle

CallDownloadMultipleMarkdownFiles ==
    /\ pc = "call"
    /\ returned' = downloadMultipleMarkdownFiles(argument)
    /\ pc' = "return"
    /\ UNCHANGED <<argument, uiVars, idleVars>>

\* The calls of downloadMultipleMarkdownFiles.
SpecArchive == InitArchive /\ [][CallDownloadMultipleMarkdownFiles]_vars

InitSanitize ==
    /\ argument \in SanitizeArguments
    /\ returned = Undefined
    /\ pc = "call"
    /\ NoWalk
    /\ NoOther
    /\ NoUI

\* sanitizeForPostMessage(value), seen being a new WeakSet.
SanitizeCall ==
    /\ pc = "call"
    /\ Visit(argument.value, <<>>)
    /\ UNCHANGED <<argument, uiVars, otherVars>>

\* The call for the next item of the array or object the innermost call is
\* at.
SanitizeItem ==
    /\ pc = "walk"
    /\ LET top == stack[Len(stack)]
           items == argument.heap[top.addr].items
       IN /\ Len(top.out) < Len(items)
          /\ Visit(items[Len(top.out) + 1], stack)
    /\ UNCHANGED <<argument, uiVars, otherVars>>

\* The innermost call has been through its items and returns.
SanitizeReturn ==
    /\ pc = "walk"
    /\ LET top == stack[Len(stack)]
           cell == argument.heap[top.addr]
       IN /\ Len(top.out) = Len(cell.items)
          /\ Return(SubSeq(stack, 1, Len(stack) - 1), Built(cell, top.out))
    /\ seen' = seen
    /\ UNCHANGED <<argument, uiVars, otherVars>>

NextSanitize == SanitizeCall \/ SanitizeItem \/ SanitizeReturn

\* The calls of sanitizeForPostMessage.
SpecSanitize == InitSanitize /\ [][NextSanitize]_vars

InitMultiple ==
    /\ argument \in { [componentIds |-> [k \in 1..Len(q) |-> q[k].id],
                       race |-> [k \in 1..Len(q) |-> q[k].race],
                       options |-> o] : q \in Requests, o \in MultipleOptions }
    /\ returned = Undefined
    /\ pc = "call"
    /\ NoUI
    /\ NoIdle

\* The message 'Export-multiple': ExportMultipleComponents(msg.componentIds,
\* msg.options), up to the message it posts.
CallExportMultipleComponents ==
    /\ pc = "call"
    /\ returned' = ExportMultipleComponents(argument.componentIds, argument.options,
                                            DocumentNodes, argument.race)
    /\ pc' = "return"
    /\ UNCHANGED <<argument, uiVars, idleVars>>

\* The calls of ExportMultipleComponents.
SpecMultiple == InitMultiple /\ [][CallExportMultipleComponents]_vars

\* The App after it is mounted, with no export asked for.
InitExport ==
    /\ NoUI
    /\ pc = "return"
    /\ argument = Undefined
    /\ returned = Undefined
    /\ NoWalk
    /\ NoOther

hostVars ==
    <<argument, returned, walkVars, cacheVars, anatomyData, pc, built, anatomyGroups, result>>

shownVars == <<ExportedData, outputFormat, anatomyView, output, treeCalls,
               metadata, serializer, serialized>>

\* The request of the given type is posted to the plugin.
Posted(type) ==
    /\ tasks' = Append(tasks, [type |-> type, pc |-> "posted", options |-> options,
                               componentIds |-> selectedComponentIds,
                               node |-> Null, replies |-> <<>>])
    /\ toHost' = Append(toHost, Len(tasks) + 1)

\* handleExport, the click on the export button, which is disabled while
\* isExporting is set.
HandleExport ==
    /\ ~isExporting
    /\ Len(tasks) < MaxRequests
    /\ IF activeTab = "selection"
       THEN isExporting' = TRUE /\ Posted("Export-properties")
       ELSE IF Len(selectedComponentIds) = 0
       THEN UNCHANGED <<isExporting, tasks, toHost>>
       ELSE isExporting' = TRUE /\ Posted("Export-multiple")
    /\ UNCHANGED <<activeTab, selectedComponentIds, selection, toUI, options,
                   shownVars, hostVars>>

\* The tabs: setActiveTab.
SetActiveTab ==
    \E tab \in Tabs :
        /\ activeTab' = tab
        /\ UNCHANGED <<isExporting, selectedComponentIds, selection, toHost, toUI, tasks,
                       options, shownVars, hostVars>>

\* A component of the list is ticked or unticked.
ToggleComponentSelection ==
    \E id \in ListedIds :
        /\ selectedComponentIds' =
              LET Other(x) == x # id
              IN IF \E k \in 1..Len(selectedComponentIds) : selectedComponentIds[k] = id
                 THEN SelectSeq(selectedComponentIds, Other)
                 ELSE Append(selectedComponentIds, id)
        /\ UNCHANGED <<isExporting, activeTab, selection, toHost, toUI, tasks,
                       options, shownVars, hostVars>>

\* handleOptionChange(key) for each of the checkboxes.
HandleAnyOptionChange == OptionChange(CheckboxKeys)

\* The user selects other nodes on the page.
SelectionChange ==
    \E selected \in Selections :
        /\ selection' = selected
        /\ UNCHANGED <<isExporting, activeTab, selectedComponentIds, toHost, toUI, tasks,
                       options, shownVars, hostVars>>

\* The handler of request r posts the messages of posts and is at pc then.
Replied(r, posts, at) ==
    /\ tasks' = [tasks EXCEPT ![r].replies = @ \o posts, ![r].pc = at]
    /\ toUI' = toUI \o posts

\* figma.ui.onmessage for 'Export-properties': ExportComponentProperties up
\* to its return or to the await of the race.
OnExportProperties ==
    /\ toHost # <<>>
    /\ tasks[Head(toHost)].type = "Export-properties"
    /\ LET r == Head(toHost)
           posts == BeforeRace(DocumentNodes, selection)
       IN IF posts # <<>> THEN Replied(r, posts, "done")
          ELSE /\ tasks' = [tasks EXCEPT ![r].pc = "racing", ![r].node = selection[1]]
               /\ toUI' = toUI
    /\ toHost' = Tail(toHost)
    /\ UNCHANGED <<isExporting, activeTab, selectedComponentIds, selection, options,
                   shownVars, hostVars>>

\* figma.ui.onmessage for 'Export-multiple': ExportMultipleComponents, the
\* race of each export ending one way or another.
OnExportMultiple ==
    /\ toHost # <<>>
    /\ tasks[Head(toHost)].type = "Export-multiple"
    /\ LET r == Head(toHost)
           componentIds == tasks[r].componentIds
       IN \E race \in [1..Len(componentIds) -> {"resolved", "rejected", "timeout"}] :
            Replied(r, <<ExportMultipleComponents(componentIds, tasks[r].options,
                                                  DocumentNodes, race)>>, "done")
    /\ toHost' = Tail(toHost)
    /\ UNCHANGED <<isExporting, activeTab, selectedComponentIds, selection, options,
                   shownVars, hostVars>>

Racing(r) == r \in 1..Len(tasks) /\ tasks[r].pc = "racing"

\* The export of a racing request resolves before the timer.
ExportResolves ==
    \E r \in 1..MaxRequests :
        /\ Racing(r)
        /\ Replied(r, AfterExport(DocumentNodes[tasks[r].node], tasks[r].options), "done")
        /\ UNCHANGED <<isExporting, activeTab, selectedComponentIds, selection, toHost,
                       options, shownVars, hostVars>>

\* The export of a racing request rejects before the timer.
ExportRejects ==
    \E r \in 1..MaxRequests :
        /\ Racing(r)
        /\ Replied(r, AfterRejection, "done")
        /\ UNCHANGED <<isExporting, activeTab, selectedComponentIds, selection, toHost,
                       options, shownVars, hostVars>>

\* The timer of a racing request fires before the export settles.
TimerFires ==
    \E r \in 1..MaxRequests :
        /\ Racing(r)
        /\ Replied(r, AfterTimer, "late")
        /\ UNCHANGED <<isExporting, activeTab, selectedComponentIds, selection, toHost,
                       options, shownVars, hostVars>>

\* The export of a request that timed out settles.
LateExportSettles ==
    \E r \in 1..MaxRequests :
        /\ r \in 1..Len(tasks)
        /\ tasks[r].pc = "late"
        /\ Replied(r, AfterTimeout(DocumentNodes[tasks[r].node], tasks[r].options), "done")
        /\ UNCHANGED <<isExporting, activeTab, selectedComponentIds, selection, toHost,
                       options, shownVars, hostVars>>

\* The message listener of the App for 'Exportion-result'.
OnExportionResult ==
    /\ toUI # <<>>
    /\ Head(toUI).type = "Exportion-result"
    /\ ExportedData' = Head(toUI).data
    /\ isExporting' = FALSE
    /\ toUI' = Tail(toUI)
    /\ UNCHANGED <<outputFormat, anatomyView, output, treeCalls, metadata, serializer,
                   serialized, options, activeTab, selectedComponentIds, selection,
                   toHost, tasks, hostVars>>

\* The effect of the App, which React runs after the render that follows
\* setExportedData.
ReformatEffect ==
    /\ ReformatOutput(ExportedData, outputFormat, anatomyView, options)
    /\ UNCHANGED <<ExportedData, outputFormat, anatomyView, options, restVars>>

\* The message listener of the App for 'error'.
OnError ==
    /\ toUI # <<>>
    /\ Head(toUI).type = "error"
    /\ isExporting' = FALSE
    /\ toUI' = Tail(toUI)
    /\ UNCHANGED <<activeTab, selectedComponentIds, selection, toHost, tasks, options,
                   shownVars, hostVars>>

NextExport ==
    \/ HandleExport \/ SetActiveTab \/ ToggleComponentSelection
    \/ SelectionChange \/ OnExportProperties \/ OnExportMultiple
    \/ ExportResolves \/ ExportRejects \/ TimerFires \/ LateExportSettles
    \/ OnExportionResult \/ OnError \/ ReformatEffect

\* The App and the plugin: the user asks for exports with the options as they
\* are when the App is mounted, the plugin answers.
SpecExport == InitExport /\ [][NextExport]_vars

NextOptions ==
    HandleAnyOptionChange \/ SetActiveTab \/ ToggleComponentSelection \/ HandleExport

\* The App alone: the user changes the options and asks for exports, which
\* are posted with the options as they are then.
SpecOptions == InitExport /\ [][NextOptions]_vars

\* A posted message is handled; the timer of withTimeout fires unless the
\* race has ended before; a message to the App is delivered.
SpecExportFair ==
    /\ SpecExport
    /\ WF_vars(OnExportProperties)
    /\ WF_vars(OnExportMultiple)
    /\ WF_vars(TimerFires)
    /\ WF_vars(OnExportionResult)
    /\ WF_vars(OnError)

\* The plugin is started in the file: the App is mounted and has posted
\* 'get-components'.
InitCache ==
    /\ document \in Versions
    /\ fileKey \in {THIS_KEY, Undefined}
    /\ clientStorage \in StoredBefore(fileKey)
    /\ loaders = <<>>
    /\ componentsList = Arr(<<>>)
    /\ isLoadingComponents = FALSE
    /\ fromCache = FALSE
    /\ toHost = <<"get-components">>
    /\ toUI = <<>>
    /\ isExporting = FALSE
    /\ activeTab = "selection"
    /\ selectedComponentIds = <<>>
    /\ selection = <<>>
    /\ tasks = <<>>
    /\ NoUI
    /\ pc = "return"
    /\ argument = Undefined
    /\ returned = Undefined
    /\ NoWalk

appOnly == <<isExporting, activeTab, selectedComponentIds, selection, tasks, uiVars, pc,
             argument, returned, walkVars>>

\* The handler that starts at the given place.
Loader(type, at, force) ==
    [type |-> type, pc |-> at, forceRefresh |-> force, cachedData |-> Undefined,
     hash |-> <<>>, components |-> Arr(<<>>), scanned |-> <<>>, stale |-> FALSE]

\* The user edits the components of the file.
EditDocument ==
    \E doc \in Versions :
        /\ document' = doc
        /\ UNCHANGED <<fileKey, clientStorage, loaders, componentsList, isLoadingComponents,
                       fromCache, toHost, toUI, appOnly>>

\* figma.ui.onmessage for 'get-components': getAllComponents(false) up to
\* the await of loadAllPagesAsync.
OnGetComponents ==
    /\ toHost # <<>>
    /\ Head(toHost) = "get-components"
    /\ toHost' = Tail(toHost)
    /\ loaders' = Append(loaders, Loader("get-components", "loadAllPagesAsync", FALSE))
    /\ UNCHANGED <<document, fileKey, clientStorage, componentsList, isLoadingComponents,
                   fromCache, toUI, appOnly>>

\* figma.ui.onmessage for 'refresh-components', up to the await of
\* deleteAsync.
OnRefreshComponents ==
    /\ toHost # <<>>
    /\ Head(toHost) = "refresh-components"
    /\ toHost' = Tail(toHost)
    /\ loaders' = Append(loaders, Loader("refresh-components", "deleteAsync", TRUE))
    /\ UNCHANGED <<document, fileKey, clientStorage, componentsList, isLoadingComponents,
                   fromCache, toUI, appOnly>>

At(i, place) == i \in 1..Len(loaders) /\ loaders[i].pc = place

\* The fresh scan of a handler, up to the await of getComponentsHash.
Scanned(loader) ==
    [loader EXCEPT !.components = findComponents(document), !.scanned = document,
                   !.pc = "getComponentsHash"]

\* deleteAsync('componentsCache') is done: getAllComponents(true) is called.
CacheDeleted ==
    \E i \in 1..MaxLoads :
        /\ At(i, "deleteAsync")
        /\ clientStorage' = Undefined
        /\ loaders' = [loaders EXCEPT ![i].pc = "loadAllPagesAsync"]
        /\ UNCHANGED <<document, fileKey, componentsList, isLoadingComponents, fromCache,
                       toHost, toUI, appOnly>>

\* loadAllPagesAsync is done: a forced request scans, another reads the
\* cache.
PagesLoaded ==
    \E i \in 1..MaxLoads :
        /\ At(i, "loadAllPagesAsync")
        /\ loaders' = [loaders EXCEPT ![i] = IF @.forceRefresh THEN Scanned(@)
                                            ELSE [@ EXCEPT !.pc = "getAsync"]]
        /\ UNCHANGED <<document, fileKey, clientStorage, componentsList,
                       isLoadingComponents, fromCache, toHost, toUI, appOnly>>

\* getAsync('componentsCache') is done: a valid record of the file is sent
\* and the hash of the document asked for; without one the handler scans.
CacheRead ==
    \E i \in 1..MaxLoads :
        /\ At(i, "getAsync")
        /\ IF ValidCache(clientStorage, fileKey)
           THEN /\ toUI' = Append(toUI, ComponentsList(clientStorage.components, FALSE))
                /\ loaders' = [loaders EXCEPT ![i].cachedData = clientStorage,
                                              ![i].hash = getComponentsHash(document),
                                              ![i].pc = "currentHash"]
           ELSE /\ toUI' = toUI
                /\ loaders' = [loaders EXCEPT ![i] = Scanned(@)]
        /\ UNCHANGED <<document, fileKey, clientStorage, componentsList,
                       isLoadingComponents, fromCache, toHost, appOnly>>

\* The hash of the document is there: with the hash of the record the
\* handler returns, with another it sends the cached list with fromCache and
\* goes on to scan.
HashCompared ==
    \E i \in 1..MaxLoads :
        /\ At(i, "currentHash")
        /\ IF loaders[i].hash # loaders[i].cachedData.hash
           THEN /\ toUI' = Append(toUI, ComponentsList(loaders[i].cachedData.components, TRUE))
                /\ loaders' = [loaders EXCEPT ![i] = Scanned([@ EXCEPT !.stale = TRUE])]
           ELSE /\ toUI' = toUI
                /\ loaders' = [loaders EXCEPT ![i].pc = "done"]
        /\ UNCHANGED <<document, fileKey, clientStorage, componentsList,
                       isLoadingComponents, fromCache, toHost, appOnly>>

\* The hash of the scan is there: setAsync is called with the record.
HashAwaited ==
    \E i \in 1..MaxLoads :
        /\ At(i, "getComponentsHash")
        /\ loaders' = [loaders EXCEPT ![i].hash = AwaitedHash(loaders[i].scanned, document),
                                      ![i].pc = "setAsync"]
        /\ UNCHANGED <<document, fileKey, clientStorage, componentsList,
                       isLoadingComponents, fromCache, toHost, toUI, appOnly>>

\* setAsync is done: the record is stored and the list is sent.
CacheSaved ==
    \E i \in 1..MaxLoads :
        /\ At(i, "setAsync")
        /\ clientStorage' = [fileKey |-> FileKeyOr(fileKey), hash |-> loaders[i].hash,
                             components |-> loaders[i].components]
        /\ toUI' = Append(toUI, ComponentsList(loaders[i].components, FALSE))
        /\ loaders' = [loaders EXCEPT ![i].pc = "done"]
        /\ UNCHANGED <<document, fileKey, componentsList, isLoadingComponents, fromCache,
                       toHost, appOnly>>

\* The message listener of the App for 'components-list'.
OnComponentsList ==
    /\ toUI # <<>>
    /\ Head(toUI).type = "components-list"
    /\ componentsList' = Head(toUI).components
    /\ isLoadingComponents' = FALSE
    /\ fromCache' = Head(toUI).fromCache
    /\ toUI' = Tail(toUI)
    /\ UNCHANGED <<document, fileKey, clientStorage, loaders, toHost, appOnly>>

\* handleRefreshComponents, the button of the refresh prompt, which is shown
\* when fromCache && !isLoadingComponents.
HandleRefreshComponents ==
    /\ fromCache /\ ~isLoadingComponents
    /\ Len(loaders) + Len(toHost) < MaxLoads
    /\ isLoadingComponents' = TRUE
    /\ fromCache' = FALSE
    /\ toHost' = Append(toHost, "refresh-components")
    /\ UNCHANGED <<document, fileKey, clientStorage, loaders, componentsList, toUI, appOnly>>

NextCache ==
    \/ EditDocument \/ OnGetComponents \/ OnRefreshComponents \/ CacheDeleted
    \/ PagesLoaded \/ CacheRead \/ HashCompared \/ HashAwaited \/ CacheSaved
    \/ OnComponentsList \/ HandleRefreshComponents

\* The component list: the plugin in a file, the cache of the client storage,
\* the handlers of the requests and the App.
SpecCache == InitCache /\ [][NextCache]_vars

Spec == Init /\ [][Next]_vars

\* The calls on variant mappings.
SpecVariants == InitVariants /\ [][Next]_vars

(***************************************************************************)
(* Vocabulary of the properties                                            *)
(***************************************************************************)
Range(s) == {s[i] : i \in 1..Len(s)}

\* The call returned and took the single-anatomy branch.
SingleDone ==
    pc = "return" /\ PassesGuard(anatomyData) /\ ~isVariantBased(anatomyData)

IsSequenceInput == IsArray(anatomyData)
IsMappingInput ==
    PassesGuard(anatomyData) /\ ~IsArray(anatomyData) /\ ~isVariantBased(anatomyData)

\* The canonical element sequence the tree builder works on.
Records == nodesArray(anatomyData)

KeyOf(rec) == OrElse(rec, "path", rec.name)
ParentOf(rec) == OrElse(rec, "parentPath", EMPTY)

\* Where node i hangs: the positions of the root list and of the children
\* lists that hold it.
RootSlots(f, i) == {k \in 1..Len(f.rootNodes) : f.rootNodes[k] = i}
ChildSlots(f, i) ==
    {pk \in (1..Len(f.nodes)) \X (1..Len(f.nodes)) :
        pk[2] <= Len(f.children[pk[1]]) /\ f.children[pk[1]][pk[2]] = i}

RECURSIVE Closure(_, _, _)
Closure(f, S, k) ==
    IF k = 0 THEN S
    ELSE Closure(f, S \cup UNION {Range(f.children[x]) : x \in S}, k - 1)

\* The nodes reachable from node r through children lists.
Reach(f, r) == Closure(f, {r}, Len(f.nodes))

ReachableNodes(f) == UNION {Reach(f, r) : r \in Range(f.rootNodes)}

\* Depth-first pre-order of the forest, as node numbers.
RECURSIVE Preorder(_, _, _)
Preorder(f, list, fuel) ==
    IF fuel = 0 \/ Len(list) = 0 THEN <<>>
    ELSE <<list[1]>> \o Preorder(f, f.children[list[1]] \o Tail(list), fuel - 1)

DepthFirst(f) == Preorder(f, f.rootNodes, Len(f.nodes) + 1)

\* Each record's ancestors precede it and the paths are pairwise distinct.
Canonical(recs) ==
    /\ \A i, j \in 1..Len(recs) : KeyOf(recs[i]) = KeyOf(recs[j]) => i = j
    /\ \A i \in 1..Len(recs) :
          ParentOf(recs[i]) # EMPTY =>
              \E j \in 1..(i - 1) : KeyOf(recs[j]) = ParentOf(recs[i])

\* A record whose non-empty parent path is the path of no earlier record.
IsOrphan(recs, i) ==
    /\ ParentOf(recs[i]) # EMPTY
    /\ \A j \in 1..(i - 1) : KeyOf(recs[j]) # ParentOf(recs[i])

\* The lines of a returned text.
LinesOf(text) == Split(text, NL)

\* The element names a rendered tree shows, line by line: the name of a root
\* header, and of a child line the text between connector and type suffix.
IsHeaderLine(line) == Len(line) > 0 /\ line[1] = BOX
IsChildLine(line) == \E k \in 1..Len(line) : line[k] \in {LAST_CONNECTOR, MID_CONNECTOR}
ConnectorAt(line) == CHOOSE k \in 1..Len(line) :
    /\ line[k] \in {LAST_CONNECTOR, MID_CONNECTOR}
    /\ \A m \in 1..(k - 1) : line[m] \notin {LAST_CONNECTOR, MID_CONNECTOR}
SuffixAt(line) ==
    IF \E k \in 1..Len(line) : line[k] = " ("
    THEN CHOOSE k \in 1..Len(line) : line[k] = " (" /\ \A m \in 1..(k - 1) : line[m] # " ("
    ELSE Len(line) + 1
NameOnLine(line) ==
    IF IsHeaderLine(line) THEN Tail(line)
    ELSE SubSeq(line, ConnectorAt(line) + 1, SuffixAt(line) - 1)

RECURSIVE NamesOnLines(_)
NamesOnLines(lines) ==
    IF Len(lines) = 0 THEN <<>>
    ELSE (IF IsHeaderLine(lines[1]) \/ IsChildLine(lines[1])
          THEN <<NameOnLine(lines[1])>> ELSE <<>>) \o NamesOnLines(Tail(lines))

RenderedNames == IF result = <<>> THEN <<>> ELSE NamesOnLines(LinesOf(result))

(***************************************************************************)
(* C1  Tree Builder on canonical element sequences                         *)
(***************************************************************************)
\* C1: for a canonical element sequence the forest holds every record
\* exactly once, every node is reachable from exactly one root, node c is a
\* child of node p exactly when c's parentPath is p's path, and a node is a
\* root exactly when its parentPath is empty.
C1_CanonicalForest ==
    (SingleDone /\ Canonical(Records)) =>
        LET f == built[1]
            n == Len(Records)
        IN /\ Len(f.nodes) = n
           /\ \A i \in 1..n :
                 /\ f.nodes[i].name = Records[i].name
                 /\ f.nodes[i].path = KeyOf(Records[i])
                 /\ Cardinality(RootSlots(f, i)) + Cardinality(ChildSlots(f, i)) = 1
                 /\ Cardinality({k \in 1..Len(f.rootNodes) :
                                    i \in Reach(f, f.rootNodes[k])}) = 1
                 /\ (i \in Range(f.rootNodes)) = (f.nodes[i].parentPath = EMPTY)
           /\ \A c, p \in 1..n :
                 (c \in Range(f.children[p])) = (f.nodes[c].parentPath = f.nodes[p].path)

\* A canonical sequence of four records with two roots and a grandchild.
C1_Witness ==
    /\ SingleDone /\ IsSequenceInput /\ Canonical(Records)
    /\ Len(Records) = 4
    /\ Len(built[1].rootNodes) = 2
    /\ \E c, p \in 1..4 : c \in Range(built[1].children[p])
                          /\ p \notin Range(built[1].rootNodes)

(***************************************************************************)
(* C2  Orphan recovery                                                     *)
(***************************************************************************)
\* The root block of node i is among the lines of the text.
HasRootBlock(f, i, text) ==
    \E k \in 1..(Len(LinesOf(text)) - 1) :
        /\ LinesOf(text)[k] = <<BOX>> \o f.nodes[i].name
        /\ LinesOf(text)[k + 1] = <<ROOT_TYPE>> \o f.nodes[i].type

\* C2: in either shape, a record whose non-empty parent path is the path of
\* no earlier record is appended to the root list and rendered as a root
\* block, and the forest has as many nodes as the input has records.
C2_OrphanKept ==
    SingleDone =>
        LET f == built[1]
        IN /\ \A i \in 1..Len(Records) :
                 IsOrphan(Records, i) =>
                     /\ i \in Range(f.rootNodes)
                     /\ HasRootBlock(f, i, result)
           /\ Cardinality(ReachableNodes(f)) = Len(Records)

(***************************************************************************)
(* C3  Order stability of the explicit-sequence shape                      *)
(***************************************************************************)
InputNames == [i \in 1..Len(Records) |-> Records[i].name]
Identity(n) == [i \in 1..n |-> i]

\* C3 as stated, taken on the canonical sequences (where no record is lost):
\* the depth-first order of the rendered tree is the input order.
C3_InputOrderKept ==
    (SingleDone /\ IsSequenceInput /\ Canonical(Records)) =>
        /\ DepthFirst(built[1]) = Identity(Len(Records))
        /\ RenderedNames = InputNames

\* The record the lookup of record i's parent path finds: the latest record
\* up to i with that path (0 when there is none or the parent path is empty).
InputParent(recs, i) ==
    LET cands == {j \in 1..i : KeyOf(recs[j]) = ParentOf(recs[i])}
    IN IF ParentOf(recs[i]) = EMPTY \/ cands = {} THEN 0
       ELSE CHOOSE j \in cands : \A k \in cands : k <= j

RECURSIVE InputAncestors(_, _, _)
InputAncestors(recs, i, fuel) ==
    LET p == InputParent(recs, i)
    IN IF fuel = 0 \/ p = 0 \/ p = i THEN {}
       ELSE {p} \cup InputAncestors(recs, p, fuel - 1)

\* The sequence lists the elements in document order: the parent a record
\* finds is the record before it or an ancestor of that record.
DocumentOrder(recs) ==
    \A i \in 1..Len(recs) :
        InputParent(recs, i) # 0 =>
            /\ i > 1
            /\ InputParent(recs, i) \in {i - 1} \cup InputAncestors(recs, i - 1, Len(recs))

Increasing(s) == \A a, b \in 1..Len(s) : a < b => s[a] < s[b]

\* C3 amended: an explicit sequence in document order, and no other, is
\* rendered in its input order; in every explicit sequence the roots and the
\* children of each node keep their input order.
C3_DocumentOrderKept ==
    (SingleDone /\ IsSequenceInput) =>
        LET f == built[1]
        IN /\ DocumentOrder(Records) =>
                 /\ DepthFirst(f) = Identity(Len(Records))
                 /\ RenderedNames = InputNames
           /\ DepthFirst(f) = Identity(Len(Records)) => DocumentOrder(Records)
           /\ Increasing(f.rootNodes)
           /\ \A p \in 1..Len(f.nodes) : Increasing(f.children[p])

\* A document-order sequence of four records with a root after a nested one.
C3_Witness ==
    /\ SingleDone /\ IsSequenceInput /\ DocumentOrder(Records)
    /\ Len(Records) = 4
    /\ Len(built[1].rootNodes) = 2
    /\ \E p \in 1..4 : Len(built[1].children[p]) = 2
    /\ RenderedNames = InputNames

(***************************************************************************)
(* C4, C5  Canonical order of the flat-mapping shape                       *)
(***************************************************************************)
\* C4: whatever the key order of a flat mapping, every record whose parent
\* path is the path of another record of the mapping is a child of that
\* record.
C4_ParentsBeforeChildren ==
    (SingleDone /\ IsMappingInput) =>
        \A i, j \in 1..Len(Records) :
            (i # j /\ ParentOf(Records[i]) = KeyOf(Records[j])) =>
                i \in Range(built[1].children[j])

\* The order of element names, and the lexicographic order of paths by
\* segment, a shorter path before its extensions.
NameRank(tok) == IF tok = "A" THEN 1 ELSE IF tok = "B" THEN 2 ELSE 3

RECURSIVE SegmentsBefore(_, _)
SegmentsBefore(a, b) ==
    IF Len(a) = 0 THEN Len(b) > 0
    ELSE IF Len(b) = 0 THEN FALSE
    ELSE IF a[1] = b[1] THEN SegmentsBefore(Tail(a), Tail(b))
    ELSE NameRank(a[1][1]) < NameRank(b[1][1])

PathBefore(p, q) == SegmentsBefore(Split(p, SEP), Split(q, SEP))

SortedByPath(f, s) ==
    \A a, b \in 1..Len(s) : a < b => PathBefore(f.nodes[s[a]].path, f.nodes[s[b]].path)

\* C5 as stated, taken on the mappings whose keys list every parent before
\* its children: the roots and the children of every node are rendered in
\* lexicographic order of their path segments, whatever the key order.
C5_SiblingsSorted ==
    (SingleDone /\ IsMappingInput /\ Canonical(Records)) =>
        LET f == built[1]
        IN /\ SortedByPath(f, f.rootNodes)
           /\ \A p \in 1..Len(f.nodes) : SortedByPath(f, f.children[p])

(***************************************************************************)
(* C6, C7  The variant grouper                                             *)
(***************************************************************************)
VariantDone ==
    pc = "return" /\ PassesGuard(anatomyData) /\ isVariantBased(anatomyData)

Variants == ObjectKeys(anatomyData)

\* rec.f, with "no such property" told apart from every string
PropOf(rec, f) == IF f \in DOMAIN rec THEN <<rec[f]>> ELSE <<>>

\* The (name, type, path) triples of an anatomy, position by position.
TriplesOf(anat) ==
    [i \in 1..Len(nodesArray(anat)) |->
        <<PropOf(nodesArray(anat)[i], "name"),
          PropOf(nodesArray(anat)[i], "type"),
          PropOf(nodesArray(anat)[i], "path")>>]

SameShape(v, w) == TriplesOf(Get(anatomyData, v)) = TriplesOf(Get(anatomyData, w))

\* The places (group, position) where a variant name is listed.
PlacesOf(groups, v) ==
    {gk \in (1..Len(groups)) \X (1..Len(Variants)) :
        gk[2] <= Len(groups[gk[1]].variantList) /\ groups[gk[1]].variantList[gk[2]] = v}

GroupOf(groups, v) == CHOOSE g \in 1..Len(groups) : v \in Range(groups[g].variantList)

PositionOf(v) == CHOOSE k \in 1..Len(Variants) : Variants[k] = v

\* C7: groups are listed in the order in which their first members occur in
\* the variant mapping, and the members of a group in their order in the
\* mapping.
C7_FirstSeenOrder ==
    VariantDone =>
        LET groups == anatomyGroups
        IN /\ \A g, h \in 1..Len(groups) :
                 g < h => PositionOf(groups[g].variantList[1])
                            < PositionOf(groups[h].variantList[1])
           /\ \A g \in 1..Len(groups) :
                 \A a, b \in 1..Len(groups[g].variantList) :
                     a < b => PositionOf(groups[g].variantList[a])
                                < PositionOf(groups[g].variantList[b])

\* Three variants of shapes x, y, x: two groups, the second variant alone in
\* the second.
C7_Witness ==
    /\ VariantDone
    /\ Len(Variants) = 3
    /\ Len(anatomyGroups) = 2
    /\ anatomyGroups[2].variantList = <<Variants[2]>>
    /\ Len(anatomyGroups[1].variantList) = 2

(***************************************************************************)
(* C8, C9  Rendering of variant mappings                                   *)
(***************************************************************************)
IsGroupHeader(line) == Len(line) > 0 /\ line[1] \in {"[Variant: ", "[Variants: "}
IsRule(line) == Len(line) > 0 /\ \A k \in 1..Len(line) : line[k] = RULE_CHAR

AllSameShape == \A v, w \in Range(Variants) : SameShape(v, w)

\* C8: when all variants have one shape the text is the rendering of the
\* first variant's anatomy alone, without header and without rule.
C8_UniformRenderedOnce ==
    (VariantDone /\ AllSameShape) =>
        /\ result = renderTree(buildTreeFromAnatomy(Get(anatomyData, Variants[1])))
        /\ \A k \in 1..Len(LinesOf(result)) :
              ~IsGroupHeader(LinesOf(result)[k]) /\ ~IsRule(LinesOf(result)[k])

\* Two variants of one shape with a non-empty anatomy.
C8_Witness ==
    /\ VariantDone /\ AllSameShape
    /\ Len(Variants) >= 2
    /\ Len(result) > 0
    /\ Len(anatomyGroups) = 1

\* The lines of the block of group g: header, blank line, the tree of the
\* group's first variant.
BlockOf(g) ==
    LET members == anatomyGroups[g].variantList
        header == IF Len(members) = 1
                  THEN <<"[Variant: ">> \o members[1] \o <<"]">>
                  ELSE <<"[Variants: ">> \o Join(members, ", ") \o <<"]">>
    IN <<header, <<>>>>
       \o LinesOf(renderTree(buildTreeFromAnatomy(Get(anatomyData, members[1]))))

RECURSIVE BlocksFrom(_)
BlocksFrom(g) ==
    IF g > Len(anatomyGroups) THEN <<>>
    ELSE (IF g > 1 THEN << <<>>, Repeat(RULE_CHAR, 60), <<>> >> ELSE <<>>)
         \o BlockOf(g) \o BlocksFrom(g + 1)

\* C9: with g >= 2 groups the text is the g blocks in creation order, each
\* a header, a blank line and the tree of the group's first variant, every
\* block but the first behind a rule of 60 characters; there are g headers
\* and g - 1 rules.
C9_GroupedLayout ==
    (VariantDone /\ Len(anatomyGroups) >= 2) =>
        LET lines == LinesOf(result)
        IN /\ lines = BlocksFrom(1)
           /\ Cardinality({k \in 1..Len(lines) : IsGroupHeader(lines[k])})
                 = Len(anatomyGroups)
           /\ Cardinality({k \in 1..Len(lines) : IsRule(lines[k])})
                 = Len(anatomyGroups) - 1
           /\ \A k \in 1..Len(lines) : IsRule(lines[k]) => Len(lines[k]) = 60

\* Three variants, two of one shape and one of another: a plural and a
\* singular header and one rule.
C9_Witness ==
    /\ VariantDone
    /\ Len(anatomyGroups) = 2
    /\ \E k \in 1..Len(LinesOf(result)) :
          LinesOf(result)[k] = <<"[Variants: ">> \o Variants[1] \o <<", ">> \o Variants[2] \o <<"]">>
    /\ \E k \in 1..Len(LinesOf(result)) :
          LinesOf(result)[k] = <<"[Variant: ">> \o Variants[3] \o <<"]">>
    /\ \E k \in 1..Len(LinesOf(result)) : IsRule(LinesOf(result)[k])

(***************************************************************************)
(* C10  The line of a non-root node                                        *)
(***************************************************************************)
IsRootNode(f, i) == i \in Range(f.rootNodes)

\* The node whose children list holds the non-root node i of the forest.
ParentIn(f, i) == CHOOSE p \in 1..Len(f.nodes) : p # i /\ i \in Range(f.children[p])

IsLastSibling(f, i) ==
    LET kids == f.children[ParentIn(f, i)] IN kids[Len(kids)] = i

\* The ancestors of a node of the forest, the root first, the parent last.
RECURSIVE AncestorsIn(_, _, _)
AncestorsIn(f, i, fuel) ==
    IF fuel = 0 \/ IsRootNode(f, i) THEN <<>>
    ELSE Append(AncestorsIn(f, ParentIn(f, i), fuel - 1), ParentIn(f, i))

\* The line the claim gives the non-root node i: one indentation per
\* ancestor (blank under the root and under a last sibling, a bar under any
\* other ancestor), the connector, the name, the type in parentheses.
ClaimedLine(f, i) ==
    LET anc == AncestorsIn(f, i, Len(f.nodes))
        indent == [k \in 1..Len(anc) |->
                      IF IsRootNode(f, anc[k]) \/ IsLastSibling(f, anc[k])
                      THEN "   " ELSE "|  "]
    IN indent
       \o <<IF IsLastSibling(f, i) THEN "L- " ELSE "+- ">>
       \o f.nodes[i].name \o <<" (">> \o f.nodes[i].type \o <<")">>

NonRootsInOrder(f) ==
    LET NotRoot(i) == ~IsRootNode(f, i) IN SelectSeq(DepthFirst(f), NotRoot)

ChildLinesOf(text) ==
    IF text = <<>> THEN <<>> ELSE SelectSeq(LinesOf(text), IsChildLine)

\* C10: the non-root nodes of the rendered forest have one line each, in
\* depth-first order, and the line of each is its claimed line.
C10_ChildLineFormat ==
    SingleDone =>
        LET f == built[1]
            shown == NonRootsInOrder(f)
            lines == ChildLinesOf(result)
        IN /\ Len(lines) = Len(shown)
           /\ \A k \in 1..Len(shown) : lines[k] = ClaimedLine(f, shown[k])

\* A grandchild under a child that is not a last sibling, and one under a
\* child that is.
C10_Witness ==
    /\ SingleDone
    /\ \E k \in 1..Len(ChildLinesOf(result)) :
          /\ Len(ChildLinesOf(result)[k]) >= 3
          /\ SubSeq(ChildLinesOf(result)[k], 1, 3) = <<"   ", "|  ", "L- ">>
    /\ \E k \in 1..Len(ChildLinesOf(result)) :
          /\ Len(ChildLinesOf(result)[k]) >= 2
          /\ SubSeq(ChildLinesOf(result)[k], 1, 2) = <<"   ", "+- ">>

(***************************************************************************)
(* C11  Root blocks and the number of lines                                *)
(***************************************************************************)
\* The position of the k-th root header among the lines.
HeaderPos(lines, k) ==
    CHOOSE i \in 1..Len(lines) :
        /\ IsHeaderLine(lines[i])
        /\ Cardinality({j \in 1..(i - 1) : IsHeaderLine(lines[j])}) = k - 1

\* The hierarchy Frame > Label of the example, as a flat mapping: "A" is the
\* FRAME element and "C" the TEXT element.
FrameWithLabel == MappingAnatomy(<<"A", "C">>, << <<>>, <<"A">> >>)

\* C11: a single anatomy whose forest has r >= 1 roots and n nodes below
\* them is rendered in 2r + n + (r - 1) lines; the k-th root gives a header
\* line with its name and next to it the type line, neither of them in the
\* format of a child line; a line is blank exactly when it stands between two
\* root blocks, r - 1 lines in all and none at either end; the element A with
\* the TEXT child C gives the root block and the one child line.
C11_RootBlocks ==
    (SingleDone /\ Len(built[1].rootNodes) >= 1) =>
        LET f == built[1]
            r == Len(f.rootNodes)
            n == Cardinality(ReachableNodes(f)) - r
            lines == LinesOf(result)
        IN /\ Len(lines) = 2 * r + n + (r - 1)
           /\ Cardinality({i \in 1..Len(lines) : IsHeaderLine(lines[i])}) = r
           /\ \A k \in 1..r :
                 LET h == HeaderPos(lines, k)
                 IN /\ lines[h] = <<BOX>> \o f.nodes[f.rootNodes[k]].name
                    /\ lines[h + 1] = <<ROOT_TYPE>> \o f.nodes[f.rootNodes[k]].type
                    /\ ~IsChildLine(lines[h]) /\ ~IsChildLine(lines[h + 1])
                    /\ (k = 1) = (h = 1)
           /\ \A i \in 1..Len(lines) :
                 (lines[i] = <<>>) = (i > 1 /\ i < Len(lines) /\ IsHeaderLine(lines[i + 1])
                                       /\ lines[i - 1] # <<>>)
           /\ Cardinality({i \in 1..Len(lines) : lines[i] = <<>>}) = r - 1
           /\ (anatomyData = FrameWithLabel =>
                 lines = << <<BOX, "A">>,
                            <<ROOT_TYPE, "FRAME">>,
                            <<LAST_INDENT, LAST_CONNECTOR, "C", " (", "TEXT", ")">> >>)

\* Three roots, the second with a child.
C11_Witness ==
    /\ SingleDone
    /\ Len(built[1].rootNodes) = 3
    /\ Len(built[1].children[built[1].rootNodes[2]]) = 1
    /\ Len(LinesOf(result)) = 9

\* The example of C11 has been rendered.
C11_ExampleRendered ==
    /\ SingleDone
    /\ anatomyData = FrameWithLabel
    /\ Len(LinesOf(result)) = 3

(***************************************************************************)
(* C12  One hierarchy in the two shapes                                    *)
(***************************************************************************)
Orderings(n) == {p \in [1..n -> 1..n] : \A i, j \in 1..n : p[i] = p[j] => i = j}

\* Every non-empty parent path is the path of a record.
Closed(recs) ==
    \A i \in 1..Len(recs) :
        ParentOf(recs[i]) # EMPTY => \E j \in 1..Len(recs) : KeyOf(recs[j]) = ParentOf(recs[i])

\* The explicit sequences that describe the hierarchy of the records recs:
\* the same records, listed in document order, siblings in the
\* lexicographic order of their paths.
SequencesOf(recs) ==
    {s \in {[i \in 1..Len(recs) |-> recs[p[i]]] : p \in Orderings(Len(recs))} :
        /\ Canonical(s)
        /\ DocumentOrder(s)
        /\ LET f == buildTreeFromAnatomy(Arr(s))
           IN /\ SortedByPath(f, f.rootNodes)
              /\ \A q \in 1..Len(f.nodes) : SortedByPath(f, f.children[q])}

\* The input is a single anatomy: a sequence of element records, or a
\* mapping whose values are element records.
IsElementRecord(v) == "tag" \notin DOMAIN v /\ "path" \in DOMAIN v

IsSingleAnatomy ==
    /\ PassesGuard(anatomyData)
    /\ \A k \in 1..Len(Entries(anatomyData)) : IsElementRecord(Entries(anatomyData)[k].val)

\* C12: a single anatomy in either shape is taken as a single anatomy and
\* rendered without variant groups, and a flat mapping is rendered to the
\* text of the explicit sequence that describes the same hierarchy.
C12_SameTextInBothShapes ==
    (pc = "return" /\ IsSingleAnatomy) =>
        /\ ~isVariantBased(anatomyData)
        /\ anatomyGroups = <<>>
        /\ \A k \in 1..Len(LinesOf(result)) : ~IsGroupHeader(LinesOf(result)[k])
        /\ (IsMappingInput /\ Closed(Records)) =>
              \A s \in SequencesOf(Records) :
                  convertAnatomyToTree(Arr(s)).result = result

\* The part of C12 on the choice of the branch alone.
C12_SingleBranchTaken ==
    (pc = "return" /\ IsSingleAnatomy) =>
        /\ ~isVariantBased(anatomyData)
        /\ anatomyGroups = <<>>
        /\ \A k \in 1..Len(LinesOf(result)) : ~IsGroupHeader(LinesOf(result)[k])

\* A flat mapping whose keys come in the order of its sequence has the text
\* of the sequence.
C12_SameTextInKeyOrder ==
    (pc = "return" /\ IsMappingInput) =>
        convertAnatomyToTree(Arr(Records)).result = result

(***************************************************************************)
(* C13  Values without elements                                            *)
(***************************************************************************)
\* The input has no element: it is no object at all, or an empty mapping or
\* sequence, or a variant mapping whose variants are all empty.
HasNoElements ==
    \/ anatomyData \in NonObjects
    \/ anatomyData \in EmptyAnatomies
    \/ /\ PassesGuard(anatomyData)
       /\ Len(Entries(anatomyData)) > 0
       /\ \A k \in 1..Len(Entries(anatomyData)) :
             Entries(anatomyData)[k].val \in EmptyAnatomies

\* C13: called on null, undefined or another value that is no object, on an
\* empty mapping or sequence, or on a variant mapping whose variants have no
\* elements, convertAnatomyToTree raises nothing and returns the empty string.
C13_EmptyForNoElements ==
    (pc # "call" /\ HasNoElements) => (pc = "return" /\ result = EMPTY)

\* The call has returned for null, and for a mapping of three empty variants
\* it has built one empty forest.
C13_Witness ==
    /\ pc = "return"
    /\ HasNoElements
    /\ \/ anatomyData = Null
       \/ /\ PassesGuard(anatomyData)
          /\ Len(Entries(anatomyData)) = 3
          /\ Len(anatomyGroups) = 1

\* A call that ended in a TypeError.
C13_SomeCallRaises == pc = "throw"

(***************************************************************************)
(* Vocabulary of the serializer properties                                 *)
(***************************************************************************)
SerializerDone(f) == pc = "return" /\ serializer = f

TheComponent == PropertyOf(metadata, ComponentName)

\* The section as the component has it (Undefined when it has none), and
\* its entries.
GivenSection(section) == PropertyOf(TheComponent, <<section>>)
SectionEntries(section) == ForIn(GivenSection(section))

OutLines == Split(serialized, NL)

Blocks == {"Props", "Anatomy", "Styles", "Tokens"}

SectionOfBlock(block) ==
    IF block = "Props" THEN "props"
    ELSE IF block = "Anatomy" THEN "anatomy"
    ELSE IF block = "Styles" THEN "elementStyles"
    ELSE "tokens"

OpeningToken(block) ==
    IF block = "Props" THEN "Props {"
    ELSE IF block = "Anatomy" THEN "Anatomy {"
    ELSE IF block = "Styles" THEN "Styles {"
    ELSE "Tokens {"

\* The first and the last line of a block of the component, whose name is
\* written without its whitespace.
HeaderLine(f, block) ==
    IF f = "typescript" THEN <<"interface ", "My", "Button", OpeningToken(block)>>
    ELSE <<" * @typedef {Object} ", "My", "Button", block>>

ClosingLine(f) == IF f = "typescript" THEN <<"}">> ELSE <<" */">>

BlockEmitted(f, block) == \E i \in 1..Len(OutLines) : OutLines[i] = HeaderLine(f, block)

\* The lines between the header of a block and its closing line.
BlockBody(f, block) ==
    LET h == CHOOSE i \in 1..Len(OutLines) : OutLines[i] = HeaderLine(f, block)
        c == CHOOSE j \in (h + 1)..Len(OutLines) :
                /\ OutLines[j] = ClosingLine(f)
                /\ \A k \in (h + 1)..(j - 1) : OutLines[k] # ClosingLine(f)
    IN SubSeq(OutLines, h + 1, c - 1)

\* A member entry of a block: an interface member at the first level of
\* indentation, a property tag of a documentation comment.
IsMember(f, line) ==
    /\ Len(line) > 0
    /\ IF f = "typescript" THEN line[1] = "  "
       ELSE line[1] \in {" * @property {", " * @property {Object} ", " * @property {string} "}

Members(f, block) ==
    LET Test(line) == IsMember(f, line) IN SelectSeq(BlockBody(f, block), Test)

FirstAt(line, tok) ==
    CHOOSE k \in 1..Len(line) : line[k] = tok /\ \A m \in 1..(k - 1) : line[m] # tok

\* The name and the type a Props entry carries.
EntryName(f, line) ==
    IF f = "typescript" THEN SubSeq(line, 2, FirstAt(line, ": ") - 1)
    ELSE SubSeq(line, FirstAt(line, "} ") + 1, Len(line))

EntryType(f, line) ==
    IF f = "typescript" THEN SubSeq(line, FirstAt(line, ": ") + 1, Len(line) - 1)
    ELSE SubSeq(line, 2, FirstAt(line, "} ") - 1)

\* The type-mapping table.
DeclaredKinds == {"boolean", "string", "enum", "instance", "number"}

KindOf(desc) ==
    LET t == PropertyOf(desc, <<"type">>)
    IN IF "tag" \in DOMAIN t /\ t.tag = "string" /\ Len(t.val) = 1 THEN t.val[1] ELSE "none"

ValuesOf(desc) ==
    LET v == PropertyOf(desc, <<"values">>)
    IN IF IsArray(v) THEN [i \in 1..Len(v.items) |-> v.items[i].val] ELSE <<>>

Simple(m) == [m |-> m, literals |-> <<>>]
UnionOf(lits) == [m |-> "union", literals |-> lits]

MappedType(desc) ==
    IF KindOf(desc) \in {"boolean", "string", "number"} THEN Simple(KindOf(desc))
    ELSE IF KindOf(desc) = "instance" THEN Simple("reference")
    ELSE IF KindOf(desc) = "enum"
    THEN IF Len(ValuesOf(desc)) > 0 THEN UnionOf(ValuesOf(desc)) ELSE Simple("string")
    ELSE Simple("untyped")

\* The literals of a list of quoted literals; no list when a part is not a
\* quoted literal.
AllQuoted(parts) ==
    \A i \in 1..Len(parts) :
        Len(parts[i]) >= 2 /\ parts[i][1] = "'" /\ parts[i][Len(parts[i])] = "'"

Unquoted(parts) == [i \in 1..Len(parts) |-> SubSeq(parts[i], 2, Len(parts[i]) - 1)]

LiteralsMeaning(t, sep) ==
    IF AllQuoted(Split(t, sep)) THEN UnionOf(Unquoted(Split(t, sep))) ELSE Simple("malformed")

\* What a type written in an entry means.
MeaningOf(f, t) ==
    IF t \in {<<"boolean">>, <<"string">>, <<"number">>} THEN Simple(t[1])
    ELSE IF f = "typescript"
    THEN IF t = <<"React.ReactNode">> THEN Simple("reference")
         ELSE IF t = <<"any">> THEN Simple("untyped")
         ELSE LiteralsMeaning(t, " | ")
    ELSE IF t = <<"ReactNode">> THEN Simple("reference")
         ELSE IF t = <<"*">> THEN Simple("untyped")
         ELSE IF Len(t) >= 2 /\ t[1] = "(" /\ t[Len(t)] = ")"
         THEN IF SubSeq(t, 2, Len(t) - 1) = <<"string">> THEN Simple("string")
              ELSE LiteralsMeaning(SubSeq(t, 2, Len(t) - 1), "|")
         ELSE Simple("malformed")

QuotedList(values, sep) ==
    Join([i \in 1..Len(values) |-> <<"'">> \o values[i] \o <<"'">>], sep)

(***************************************************************************)
(* C14  One type table for the interface and the documentation block       *)
(***************************************************************************)
\* C14: in the typed interface and in the documentation block the entry of
\* every prop of a declared kind carries the type the table gives for the
\* kind: boolean, string, number, the reference placeholder for instance,
\* for an enum with values its literals in their order (quoted and joined by
\* " | ", or by "|" inside parentheses), string for an enum without values.
C14_SharedTypeTable ==
    \A f \in {"typescript", "jsdoc"} :
        (SerializerDone(f) /\ HasKeys(GivenSection("props"))) =>
            LET props == SectionEntries("props")
                entries == Members(f, "Props")
            IN /\ Len(entries) = Len(props)
               /\ \A i \in 1..Len(props) :
                     KindOf(props[i].val) \in DeclaredKinds =>
                        /\ MeaningOf(f, EntryType(f, entries[i])) = MappedType(props[i].val)
                        /\ (KindOf(props[i].val) = "enum" /\ Len(ValuesOf(props[i].val)) > 0) =>
                              EntryType(f, entries[i]) =
                                 IF f = "typescript"
                                 THEN QuotedList(ValuesOf(props[i].val), " | ")
                                 ELSE <<"(">> \o QuotedList(ValuesOf(props[i].val), "|") \o <<")">>

(***************************************************************************)
(* C15  Props of no declared kind                                          *)
(***************************************************************************)
UntypedPlaceholder(f) == IF f = "typescript" THEN <<"any">> ELSE <<"*">>

\* C15: the Props block of the typed interface and of the documentation
\* block has one entry per prop key, in the key order of the props, and the
\* entry of a prop without kind or of a kind that is not declared carries
\* the untyped placeholder.
C15_UntypedNotSkipped ==
    \A f \in {"typescript", "jsdoc"} :
        (SerializerDone(f) /\ HasKeys(GivenSection("props"))) =>
            LET props == SectionEntries("props")
                entries == Members(f, "Props")
            IN /\ Len(entries) = Len(props)
               /\ \A i \in 1..Len(props) :
                     /\ EntryName(f, entries[i]) = props[i].key
                     /\ KindOf(props[i].val) \notin DeclaredKinds =>
                           EntryType(f, entries[i]) = UntypedPlaceholder(f)

\* The typed interface of two props, the first of a kind that is not
\* declared, the second without kind.
C15_Witness ==
    /\ SerializerDone("typescript")
    /\ Len(SectionEntries("props")) = 2
    /\ KindOf(SectionEntries("props")[1].val) = "color"
    /\ KindOf(SectionEntries("props")[2].val) = "none"
    /\ Len(Members("typescript", "Props")) = 2

(***************************************************************************)
(* C16  One typed entry per prop in the four formats                       *)
(***************************************************************************)
\* The lines of the interchange text and of the nested text that open the
\* entry of a prop, and the line that gives the kind of the prop.
IsJSONPropLine(line) ==
    Len(line) >= 4 /\ SubSeq(line, 1, 4) = <<JSON_INDENT, JSON_INDENT, JSON_INDENT, QUOTE>>

IsYAMLPropLine(line) ==
    Len(line) >= 3 /\ SubSeq(line, 1, 2) = <<YAML_INDENT, YAML_INDENT>> /\ line[3] # YAML_INDENT

\* The line that opens the props section, and the first line behind the
\* section: the next one at the indentation of the section or less.
PropsSectionLine(f) ==
    IF f = "json" THEN Repeat(JSON_INDENT, 2) \o <<QUOTE, "props", QUOTE, ": ", "{">>
    ELSE <<YAML_INDENT, "props", ":">>

Indentation(line) ==
    Cardinality({k \in 1..Len(line) : \A m \in 1..k : line[m] = JSON_INDENT})

PropLineNumbers(f) ==
    {i \in 1..Len(OutLines) :
        /\ IF f = "json" THEN IsJSONPropLine(OutLines[i]) ELSE IsYAMLPropLine(OutLines[i])
        /\ \E h \in 1..(i - 1) :
              /\ OutLines[h] = PropsSectionLine(f)
              /\ \A k \in (h + 1)..i : Indentation(OutLines[k]) > Indentation(OutLines[h])}

NthOf(S, k) == CHOOSE i \in S : Cardinality({j \in S : j < i}) = k - 1

KindLine(f, kind) ==
    IF f = "json"
    THEN Repeat(JSON_INDENT, 4) \o <<QUOTE, "type", QUOTE, ": ", QUOTE, kind, QUOTE>>
    ELSE Repeat(YAML_INDENT, 3) \o <<"type", ": ", kind>>

PropLine(f, name) ==
    IF f = "json" THEN Repeat(JSON_INDENT, 3) \o <<QUOTE>> \o name \o <<QUOTE, ": ", "{">>
    ELSE Repeat(YAML_INDENT, 2) \o name \o <<":">>

\* Every prop of the component is of a declared kind, and there is one.
AllPropsDeclared ==
    /\ HasKeys(GivenSection("props"))
    /\ \A i \in 1..Len(SectionEntries("props")) :
          KindOf(SectionEntries("props")[i].val) \in DeclaredKinds

\* C16: for props of declared kinds each of the four outputs has one entry
\* per prop: in the typed interface and the documentation block an entry
\* with the type the table gives, in the interchange text and the nested
\* text an entry that gives the kind of the prop.
C16_TypedEntryPerProp ==
    /\ \A f \in {"typescript", "jsdoc"} :
          (SerializerDone(f) /\ AllPropsDeclared) =>
              LET props == SectionEntries("props")
                  entries == Members(f, "Props")
              IN /\ Len(entries) = Len(props)
                 /\ \A i \in 1..Len(props) :
                       /\ EntryName(f, entries[i]) = props[i].key
                       /\ MeaningOf(f, EntryType(f, entries[i])) = MappedType(props[i].val)
    /\ \A f \in {"json", "yaml"} :
          (SerializerDone(f) /\ AllPropsDeclared) =>
              LET props == SectionEntries("props")
                  at == PropLineNumbers(f)
              IN /\ Cardinality(at) = Len(props)
                 /\ \A i \in 1..Len(props) :
                       LET k == NthOf(at, i)
                           kind == KindLine(f, KindOf(props[i].val))
                       IN /\ OutLines[k] = PropLine(f, props[i].key)
                          /\ SubSeq(OutLines[k + 1], 1, Len(kind)) = kind

(***************************************************************************)
(* C17  Blocks of empty sections                                           *)
(***************************************************************************)
\* C17: the typed interface and the documentation block have the block of a
\* section exactly when the component has the section with at least one
\* key, and every block they have holds at least one member entry.
C17_NoEmptyBlock ==
    \A f \in {"typescript", "jsdoc"} :
        SerializerDone(f) =>
            \A block \in Blocks :
                /\ BlockEmitted(f, block) =
                      (/\ ~IsUndefined(GivenSection(SectionOfBlock(block)))
                       /\ Len(SectionEntries(SectionOfBlock(block))) > 0)
                /\ BlockEmitted(f, block) => Len(Members(f, block)) > 0

(***************************************************************************)
(* C18  Style fields of the typed interface                                *)
(***************************************************************************)
\* The style record of the element Box.
BoxStyle == PropertyOf(GivenSection("elementStyles"), <<"Box">>)

StyleFieldLine(attr) == <<"    ">> \o attr \o <<"?: ", StyleFieldType(attr), ";">>

\* C18: in the Styles block of the typed interface the optional field of a
\* style attribute is written exactly when the style record of the element
\* has the attribute, whatever its value.
C18_StyleFieldsMirrorPresence ==
    (SerializerDone("typescript") /\ ~IsUndefined(BoxStyle)) =>
        /\ BlockEmitted("typescript", "Styles")
        /\ \A k \in 1..Len(StyleAttributes) :
              (\E i \in 1..Len(BlockBody("typescript", "Styles")) :
                    BlockBody("typescript", "Styles")[i] = StyleFieldLine(StyleAttributes[k]))
              = ~IsUndefined(PropertyOf(BoxStyle, StyleAttributes[k]))

(***************************************************************************)
(* C19  Quoting of scalars in the nested text                              *)
(***************************************************************************)
\* The string written as the description of the component and as the one
\* item of its anatomy list.
HasScalar ==
    "tag" \in DOMAIN GivenSection("description") /\ GivenSection("description").tag = "string"
TheScalar == GivenSection("description").val

\* The string has a reserved character, or a space at one of its ends.
Reserved(s) ==
    \/ \E i \in 1..Len(s) : s[i] \in {":", "#", NL}
    \/ (Len(s) > 0 /\ (s[1] = " " \/ s[Len(s)] = " "))

RECURSIVE Escaped(_)
Escaped(s) ==
    IF Len(s) = 0 THEN <<>>
    ELSE (IF s[1] = QUOTE THEN <<BACKSLASH, QUOTE>> ELSE <<s[1]>>) \o Escaped(Tail(s))

\* The scalar as C19 has it written.
ClaimedScalar(s) == IF Reserved(s) THEN <<QUOTE>> \o Escaped(s) \o <<QUOTE>> ELSE s

\* C19: a string is written between double quotes, each of its double
\* quotes behind a backslash, exactly when it has a colon, a hash or a
\* newline or begins or ends with a space, and as it is otherwise; as the
\* value of a key and as an item of a sequence alike.
C19_ScalarQuoting ==
    (SerializerDone("yaml") /\ HasScalar) =>
        serialized =
            <<"My", " ", "Button", ":", NL>>
            \o <<YAML_INDENT, "description", ": ">> \o ClaimedScalar(TheScalar) \o <<NL>>
            \o <<YAML_INDENT, "anatomy", ":", NL>>
            \o <<YAML_INDENT, "  - ">> \o ClaimedScalar(TheScalar) \o <<NL>>

\* A string with a double quote that ends with a space, and so is quoted.
C19_Witness ==
    /\ SerializerDone("yaml")
    /\ HasScalar
    /\ Len(TheScalar) = 3
    /\ TheScalar[1] = QUOTE
    /\ TheScalar[2] = "a"
    /\ TheScalar[3] = " "
    /\ Len(serialized) > 0

\* A string that is written as it is, a double quote inside.
C19_VerbatimWritten ==
    /\ SerializerDone("yaml")
    /\ HasScalar
    /\ TheScalar = <<"a", QUOTE, "a">>
    /\ Len(serialized) > 0

(***************************************************************************)
(* C20  The tree view of the App                                           *)
(***************************************************************************)
\* The stored component of a name, and the one handed to the serializer.
StoredComponent(name) == PropertyOf(ExportedData, name)
HandedComponent(name) == PropertyOf(metadata, name)

ComponentNames(data) == {ForIn(data)[i].key : i \in 1..Len(ForIn(data))}

\* The anatomy of a component is an array with an item or an object with an
\* entry.
NonEmptyAnatomy(component) ==
    LET a == PropertyOf(component, <<"anatomy">>)
    IN \/ a.tag = "array" /\ a.items # <<>>
       \/ a.tag = "object" /\ a.entries # <<>>

TreeApplied(name) == \E i \in 1..Len(treeCalls) : treeCalls[i] = name

\* A component with every property but the anatomy.
WithoutAnatomy(component) ==
    LET Other(e) == e.key # <<"anatomy">> IN SelectSeq(component.entries, Other)

\* The converter is applied in the tree view only, and to a component with
\* a non-empty anatomy only.
C20_AppliedOnlyWhenAsked ==
    \A name \in ComponentNames(metadata) :
        TreeApplied(name) => (anatomyView = "tree" /\ NonEmptyAnatomy(StoredComponent(name)))

\* What the serializer is handed has the components of the stored data, each
\* as it is stored, but for the anatomy of a component the converter was
\* applied to: that is the text of the tree behind a line break.
C20_CopyHanded ==
    ~Falsy(ExportedData) =>
        /\ ObjectKeys(metadata) = ObjectKeys(ExportedData)
        /\ \A name \in ComponentNames(ExportedData) :
              IF TreeApplied(name)
              THEN /\ WithoutAnatomy(HandedComponent(name))
                        = WithoutAnatomy(StoredComponent(name))
                   /\ PropertyOf(HandedComponent(name), <<"anatomy">>)
                        = Str(<<NL>> \o convertAnatomyToTree(
                                 PropertyOf(StoredComponent(name), <<"anatomy">>)).result)
              ELSE HandedComponent(name) = StoredComponent(name)
        /\ output = Format(outputFormat, metadata)

\* In the yaml view the output is the stored data in the selected format.
C20_YamlViewShowsStored ==
    (~Falsy(ExportedData) /\ anatomyView = "yaml") =>
        output = Format(outputFormat, ExportedData)

\* A change of the view, the format or an option leaves the stored data as
\* it is, and a change of the view from tree to yaml shows the stored data in
\* the selected format.
C20_StoredDataKept ==
    /\ (anatomyView' # anatomyView \/ outputFormat' # outputFormat \/ options' # options)
          => ExportedData' = ExportedData
    /\ (anatomyView = "tree" /\ anatomyView' = "yaml")
          => output' = Format(outputFormat, ExportedData)

\* C20: when the output is reformatted, convertAnatomyToTree is applied to
\* the anatomy of a component only in the tree view and only when that
\* anatomy is not empty; the text replaces the anatomy in the copy that is
\* handed to the serializer; the stored data stays as it is, so that back in
\* the yaml view the output is that of the stored data, in each of the four
\* formats.
C20_TreeSubstitution ==
    /\ [](C20_AppliedOnlyWhenAsked /\ C20_CopyHanded /\ C20_YamlViewShowsStored)
    /\ [][C20_StoredDataKept]_vars

\* The tree view of two components, one with an anatomy of two elements and
\* one with an empty anatomy, as TypeScript: the converter was applied to
\* the first only, and the serializer was handed a copy.
C20_Witness ==
    /\ anatomyView = "tree"
    /\ outputFormat = "typescript"
    /\ ObjectKeys(ExportedData) = <<ExportedName(1), ExportedName(2)>>
    /\ NonEmptyAnatomy(StoredComponent(ExportedName(1)))
    /\ PropertyOf(StoredComponent(ExportedName(2)), <<"anatomy">>) = Arr(<<>>)
    /\ treeCalls = <<ExportedName(1)>>
    /\ metadata # ExportedData
    /\ output # Format(outputFormat, ExportedData)

\* The tree view is selected and a component has an anatomy, but the anatomy
\* option is off: the converter is not applied.
C20_TreeViewOptionOff ==
    /\ anatomyView = "tree"
    /\ ~options["anatomy"]
    /\ ~Falsy(ExportedData)
    /\ hasAnatomy(ExportedData)
    /\ treeCalls = <<>>
    /\ output = Format(outputFormat, ExportedData)


(***************************************************************************)
(* C21  Property extraction                                                *)
(***************************************************************************)
FigmaPropertyTypes == {<<"BOOLEAN">>, <<"VARIANT">>, <<"TEXT">>, <<"INSTANCE_SWAP">>}

\* The definitions of the four types among those given.
Exported ==
    LET OfTheFour(d) == \E t \in FigmaPropertyTypes : PropertyIs(d.val, <<"type">>, t)
    IN SelectSeq(ForIn(argument), OfTheFour)

\* The key of a definition without '#' and the id behind it.
WithoutId(key) ==
    IF \E i \in 1..Len(key) : key[i] = "#"
    THEN SubSeq(key, 1, (CHOOSE i \in 1..Len(key) : key[i] = "#" /\ \A j \in 1..(i - 1) : key[j] # "#") - 1)
    ELSE key

OptionsOf(def) ==
    IF IsUndefined(PropertyOf(def, <<"variantOptions">>)) THEN <<>>
    ELSE PropertyOf(def, <<"variantOptions">>).items

\* The entry the README describes for a definition.
Documented(def, entry) ==
    LET type == PropertyOf(def, <<"type">>).val
        trueFalse == {OptionsOf(def)[i] : i \in 1..Len(OptionsOf(def))}
                         = {Str(<<"true">>), Str(<<"false">>)}
                     /\ Len(OptionsOf(def)) = 2
    IN CASE type = <<"BOOLEAN">> -> entry = Obj(<<Field("type", Str(<<"boolean">>))>>)
         [] type = <<"VARIANT">> ->
                IF trueFalse
                THEN entry = Obj(<<Field("type", Str(<<"boolean">>))>>)
                ELSE entry = Obj(<<Field("type", Str(<<"enum">>)),
                                   Field("values", Arr(OptionsOf(def)))>>)
         [] type = <<"TEXT">> -> PropertyIs(entry, <<"type">>, <<"string">>)
         [] type = <<"INSTANCE_SWAP">> -> entry = Obj(<<Field("type", Str(<<"instance">>))>>)

PropertiesDone == pc = "return" /\ ~Falsy(argument)

\* C21: every definition of a variant, boolean, text or instance-swap
\* property has its entry in the result, under its key without the '#id'
\* suffix: enum with the options in their order for a variant, boolean for a
\* boolean and for a variant of exactly 'true' and 'false', string for a
\* text, instance for an instance swap; and the result has one entry for
\* each of these definitions.
C21_OneEntryPerDefinition ==
    PropertiesDone =>
        /\ \A i \in 1..Len(Exported) :
              /\ ~IsUndefined(PropertyOf(returned, WithoutId(Exported[i].key)))
              /\ Documented(Exported[i].val, PropertyOf(returned, WithoutId(Exported[i].key)))
        /\ Len(ForIn(returned)) = Len(Exported)

\* The definitions have different names.
DifferentNames ==
    \A i, j \in 1..Len(Exported) :
        WithoutId(Exported[i].key) = WithoutId(Exported[j].key) => i = j

\* With different names the entries are as documented, in the order of the
\* definitions.
C21_DocumentedForDifferentNames ==
    (PropertiesDone /\ DifferentNames) =>
        /\ Len(ForIn(returned)) = Len(Exported)
        /\ \A i \in 1..Len(Exported) :
              /\ ForIn(returned)[i].key = WithoutId(Exported[i].key)
              /\ Documented(Exported[i].val, ForIn(returned)[i].val)


(***************************************************************************)
(* C26  Export of the anatomy and the tree built from it                   *)
(***************************************************************************)
ComponentRebuilt == pc = "return" /\ argument.type = "COMPONENT"

TheLayers == argument.layers

\* The record of layer i has the name of the layer, and the path of the
\* record of its parent as parentPath, the empty string for a child of the
\* component.
RecordOfLayer(i) ==
    LET records == returned.items
        parent == TheLayers.parents[i]
    IN /\ records[i].name = TheLayers.names[i]
       /\ records[i].parentPath = IF parent = 0 THEN <<>> ELSE records[parent].path

\* The forest has a node for each layer, the children of a node are the
\* children of its layer in their order, and the roots are the children of
\* the component.
SameHierarchy(forest) ==
    /\ Len(forest.nodes) = Len(TheLayers.names)
    /\ \A i \in 1..Len(forest.nodes) :
          /\ forest.nodes[i].name = TheLayers.names[i]
          /\ forest.children[i] = ChildrenOf(TheLayers, i)
    /\ forest.rootNodes = ChildrenOf(TheLayers, 0)

\* C26: the anatomy exported for a component has one record for each layer,
\* in depth-first pre-order, each with the path of its parent as parentPath;
\* the tree built from it has the hierarchy of the layers: as many nodes, the
\* same parent for each, the same order of siblings, siblings of the same
\* name being different nodes with their own children.
C26_HierarchyRebuilt ==
    ComponentRebuilt =>
        /\ Len(returned.items) = Len(TheLayers.names)
        /\ \A i \in 1..Len(TheLayers.names) : RecordOfLayer(i)
        /\ SameHierarchy(built[1])

\* No child of the component has the empty name.
TopLevelNamed == \A i \in 1..Len(TheLayers.names) :
    TheLayers.parents[i] = 0 => TheLayers.names[i] # <<>>

\* The hierarchy is rebuilt when the children of the component have names.
C26_RebuiltWhenNamed == (ComponentRebuilt /\ TopLevelNamed) => SameHierarchy(built[1])

\* The records are as said for every hierarchy.
C26_RecordPerLayer ==
    ComponentRebuilt =>
        /\ Len(returned.items) = Len(TheLayers.names)
        /\ \A i \in 1..Len(TheLayers.names) : RecordOfLayer(i)

\* Two siblings of the same name, each with a child of its own, rebuilt.
C26_DuplicateSiblingsRebuilt ==
    /\ ComponentRebuilt
    /\ TheLayers = [names |-> <<<<"A">>, <<"B">>, <<"A">>, <<"B">>>>, parents |-> <<0, 1, 0, 3>>]
    /\ SameHierarchy(built[1])


(***************************************************************************)
(* C28  File names of the archive                                          *)
(***************************************************************************)
ArchiveDone == pc = "return"

\* C28: the components get different file names, whatever their names, and
\* the archive holds one file for each component, with the markdown of that
\* component.
C28_DistinctFilenames ==
    ArchiveDone =>
        /\ Len(returned.names) = Len(argument)
        /\ \A i, j \in 1..Len(returned.names) :
              returned.names[i] = returned.names[j] => i = j
        /\ Len(returned.zip.entries) = Len(argument)
        /\ \A k \in 1..Len(argument) :
              PropertyOf(returned.zip, returned.names[k] \o <<".md">>) = argument[k].markdown

\* Three components named B, B and B-2: the files are B, B-2 and B-2-2.
C28_Witness ==
    /\ ArchiveDone
    /\ Len(argument) = 3
    /\ argument[1].name = <<"B">>
    /\ argument[2].name = <<"B">>
    /\ argument[3].name = <<"B", "-", "2">>
    /\ returned.names = <<<<"B">>, <<"B", "-", "2">>, <<"B", "-", "2", "-", "2">>>>

\* Names that are equal once sanitized.
C28_SanitizedEqual ==
    /\ ArchiveDone
    /\ Len(argument) = 2
    /\ argument[1].name = <<"B", " ", " ", "2">>
    /\ argument[2].name = <<"B", "/", "-", "2">> \/ argument[2].name = <<"B", " ", "2">>
    /\ returned.names = <<<<"B", "-", "2">>, <<"B", "-", "2", "-", "2">>>>


(***************************************************************************)
(* C30  sanitizeForPostMessage                                             *)
(***************************************************************************)
\* C30: sanitizeForPostMessage returns for every value, cyclic ones
\* included: the nested calls never exceed what the engine allows.
C30_Terminates == pc # "throw"

RECURSIVE Cloneable(_)
\* No symbol and no function in a returned value.
Cloneable(value) ==
    CASE value.tag \in {"symbol", "function", "ref", "date"} -> FALSE
      [] value.tag = "array" -> \A k \in 1..Len(value.items) : Cloneable(value.items[k])
      [] value.tag = "object" ->
            \A k \in 1..Len(value.entries) : Cloneable(value.entries[k].val)
      [] OTHER -> TRUE

\* C30, the result: what is returned holds no symbol and no function, and a
\* value that is not an array or an object is returned as the claim says.
C30_ResultCloneable ==
    pc = "return" =>
        /\ Cloneable(returned)
        /\ argument.value.tag = "symbol" => returned = Str(<<"mixed">>)
        /\ argument.value.tag = "function" => returned = Str(<<"[Function]">>)

\* An array holds the array b.
HoldsArray(a, b) ==
    /\ argument.heap[a].kind = "array"
    /\ argument.heap[b].kind = "array"
    /\ \E k \in 1..Len(argument.heap[a].items) : argument.heap[a].items[k] = Ref(b)

\* C30, the values the call does not return for: an array is reached from
\* itself through arrays only.
C30_ThrowsOnArrayCycleOnly ==
    pc = "throw" =>
        \E a \in Addresses :
            \/ HoldsArray(a, a)
            \/ \E b \in Addresses : HoldsArray(a, b) /\ HoldsArray(b, a)

\* The array that is its own only item: const a = []; a.push(a).
C30_SelfContainingArray ==
    /\ pc = "throw"
    /\ argument.value = Ref("o1")
    /\ argument.heap["o1"] = [kind |-> "array", items |-> <<Ref("o1")>>]

\* A cycle through an object is cut: o1 = {k1: [o1]}.
C30_ObjectCycleCut ==
    /\ pc = "return"
    /\ argument.value = Ref("o1")
    /\ argument.heap["o1"] = [kind |-> "object", items |-> <<Ref("o2")>>]
    /\ argument.heap["o2"] = [kind |-> "array", items |-> <<Ref("o1")>>]
    /\ returned = Obj(<<Field("k1", Arr(<<Str(CIRCULAR)>>))>>)


(***************************************************************************)
(* C27  ExportMultipleComponents                                           *)
(***************************************************************************)
MultipleDone == pc = "return"

\* The requested ids the loop reaches: those before the first export that
\* rejects or loses the race, and that one.
Reached ==
    { k \in 1..Len(argument.componentIds) :
        \A j \in 1..(k - 1) :
            Exportable(argument.componentIds[j]) => argument.race[j] = "resolved" }

\* The positions of the ids that produced a result.
Produced ==
    { k \in Reached : Exportable(argument.componentIds[k]) /\ argument.race[k] = "resolved" }

\* The positions of the ids whose export did not produce one.
Failed ==
    { k \in Reached : Exportable(argument.componentIds[k]) /\ argument.race[k] # "resolved" }

ExportOf(k) ==
    sanitizeForPostMessage(
        Obj(Sections(DocumentNodes[argument.componentIds[k]], argument.options)))

ProducedNames == { DocumentNodes[argument.componentIds[k]].name : k \in Produced }

LastOf(name) ==
    CHOOSE k \in Produced :
        /\ DocumentNodes[argument.componentIds[k]].name = name
        /\ \A j \in Produced : DocumentNodes[argument.componentIds[j]].name = name => j <= k

\* The posted message is a result mapping with one entry for each name of
\* names, the export of the last id of that name.
ResultMappingOf(names) ==
    /\ returned.type = "Exportion-result"
    /\ {returned.data.entries[i].key : i \in 1..Len(returned.data.entries)} = names
    /\ Len(returned.data.entries) = Cardinality(names)
    /\ \A name \in names : PropertyOf(returned.data, name) = ExportOf(LastOf(name))

NoValidSent == returned.type = "error" /\ returned.message = NO_VALID

\* C27: the error 'No valid components found to Export.' is sent exactly
\* when no id produced a result; otherwise one result mapping is sent, with
\* one entry for each name among the exported ids, that of the last such id.
C27_ErrorIffNoResult ==
    MultipleDone =>
        /\ NoValidSent <=> Produced = {}
        /\ Produced # {} => ResultMappingOf(ProducedNames)

\* C27 when no export rejects or loses the race and no component is named
\* __proto__: the claim as it is stated.
C27_WithoutFailure ==
    MultipleDone /\ Failed = {} /\ PROTO \notin ProducedNames =>
        /\ NoValidSent <=> Produced = {}
        /\ Produced # {} => ResultMappingOf(ProducedNames)

\* C27 when an export rejects or loses the race: 'Export failed: ...' is all
\* that is sent, whatever the ids before it produced.
C27_FailureSendsError ==
    MultipleDone /\ Failed # {} =>
        /\ returned.type = "error"
        /\ returned.message[1] = "Export failed: "

\* C27 for a component named __proto__: its export is not in the mapping.
C27_ProtoDropped ==
    MultipleDone /\ Failed = {} =>
        \/ NoValidSent /\ ProducedNames \subseteq {PROTO}
        \/ ResultMappingOf(ProducedNames \ {PROTO})

\* The second of two ids loses the race after the first produced a result.
C27_TimeoutAfterResult ==
    /\ MultipleDone
    /\ argument.componentIds = <<"n3", "n1">>
    /\ argument.race = <<"resolved", "timeout">>
    /\ returned = sendError(<<"Export failed: ", "Error: ", "Export timeout for component: ", "A">>)

\* A component and a component set of one name: the entry is that of the
\* later id, and figma.mixed is sent as 'mixed'.
C27_LastOfNameWins ==
    /\ MultipleDone
    /\ argument.componentIds = <<"n2", "n0", "n1">>
    /\ argument.options.elementStyles
    /\ returned.type = "Exportion-result"
    /\ Len(returned.data.entries) = 1
    /\ PropertyOf(PropertyOf(returned.data, <<"A">>), <<"elementStyles">>)
         = Obj(<<Field("fontSize", Str(<<"mixed">>))>>)


(***************************************************************************)
(* C22  One reply for each export request                                  *)
(***************************************************************************)
ReplyTypes == {"Exportion-result", "error"}

\* Request r was answered with one message, a result or an error.
OneReply(r) ==
    /\ Len(tasks[r].replies) = 1
    /\ tasks[r].replies[1].type \in ReplyTypes

\* Nothing is posted for a request before it is handled and while its export
\* and the timer race; one message is posted once the handler has gone on,
\* and none is added when the export settles after the timer.
OneReplyEach ==
    \A r \in 1..Len(tasks) :
        tasks[r].type = "Export-properties" =>
            /\ tasks[r].pc \in {"posted", "racing"} => tasks[r].replies = <<>>
            /\ tasks[r].pc \in {"late", "done"} => OneReply(r)

\* C22: every 'Export-properties' request that is handled leads to one
\* message to the UI, 'Exportion-result' or 'error', a late export adding
\* none, and isExporting is cleared after it was set.
C22_OneReplyAndCleared == []OneReplyEach /\ (isExporting ~> ~isExporting)

\* A request timed out, the export settled later, and the App got the error.
C22_Witness ==
    \E r \in 1..Len(tasks) :
        /\ tasks[r].type = "Export-properties"
        /\ tasks[r].pc = "done"
        /\ tasks[r].replies = AfterTimer
        /\ toUI = <<>>
        /\ ~isExporting

\* The ways a request is answered with an error before the race.
C22_EmptySelection ==
    \E r \in 1..Len(tasks) : tasks[r].replies = <<sendError(NO_SELECTION)>>

C22_MultipleSelection ==
    \E r \in 1..Len(tasks) : tasks[r].replies = <<sendError(MULTIPLE_SELECTION)>>

C22_WrongType ==
    \E r \in 1..Len(tasks) : tasks[r].replies = <<sendError(WrongType(DocumentNodes["n5"]))>>

C22_ExportThrows ==
    \E r \in 1..Len(tasks) :
        tasks[r].type = "Export-properties" /\ tasks[r].replies = AfterRejection

(***************************************************************************)
(* C29  The styles options                                                 *)
(***************************************************************************)
\* C29: options.figmaStyles equals options.elementStyles in every state of
\* the App.
C29_StylesCoupled == options["figmaStyles"] = options["elementStyles"]

\* C29, the steps: a change of the options flips both styles options and no
\* other, or one other option and none of the styles options.
C29_ToggledTogether ==
    [][options' # options =>
        LET Flipped == {k \in OptionKeys : options'[k] # options[k]}
        IN \/ Flipped = {"elementStyles", "figmaStyles"}
           \/ \E k \in OptionKeys \ {"elementStyles", "figmaStyles"} : Flipped = {k}]_vars

\* The styles checkbox was clicked once, and an export asked for then.
C29_Witness ==
    /\ ~options["elementStyles"]
    /\ ~options["figmaStyles"]
    /\ \E r \in 1..Len(tasks) : ~tasks[r].options["figmaStyles"]


(***************************************************************************)
(* C23  The refresh prompt for a stale cache                               *)
(***************************************************************************)
Refreshing(i) == loaders[i].type = "refresh-components"

\* C23: a request that is not forced and found a valid record of the file
\* with another hash than the document has completed, its messages are
\* delivered, and the user has not asked for a refresh: the App shows the
\* prompt.
C23_PromptShown ==
    \A i \in 1..Len(loaders) :
        /\ loaders[i].stale
        /\ loaders[i].pc = "done"
        /\ toUI = <<>>
        /\ toHost = <<>>
        /\ \A j \in 1..Len(loaders) : ~Refreshing(j)
        => fromCache

\* C23, what is sent: the list of the stale record with fromCache, and the
\* list of the scan without it after that.
C23_PromptThenFresh ==
    \A i \in 1..Len(loaders) :
        loaders[i].stale /\ loaders[i].pc = "done" /\ Len(loaders) = 1 =>
            /\ ~fromCache \/ toUI # <<>>
            /\ toUI # <<>> => ~toUI[Len(toUI)].fromCache

\* A stale record was found, the request completed and the prompt is not
\* shown.
C23_PromptGone ==
    /\ Len(loaders) = 1
    /\ loaders[1].stale
    /\ loaders[1].pc = "done"
    /\ toUI = <<>>
    /\ ~fromCache
    /\ componentsList = findComponents(document)

(***************************************************************************)
(* C24  The cache record                                                   *)
(***************************************************************************)
AllDocuments == Versions \cup {OtherFile}

\* C24: the hash and the list of the stored record are those of one scan.
C24_RecordOfOneScan ==
    clientStorage # Undefined /\ IsArray(clientStorage.components) =>
        \E doc \in AllDocuments :
            /\ clientStorage.components = findComponents(doc)
            /\ clientStorage.hash = getComponentsHash(doc)

\* C24, the readers: what a handler read from the storage is of one scan.
C24_ReadOfOneScan ==
    \A i \in 1..Len(loaders) :
        loaders[i].cachedData # Undefined =>
            \E doc \in AllDocuments :
                /\ loaders[i].cachedData.components = findComponents(doc)
                /\ loaders[i].cachedData.hash = getComponentsHash(doc)

\* Two handlers overlap, the document is edited after the scan of one, and
\* that one has stored its record.
C24_Witness ==
    /\ Len(loaders) = 2
    /\ loaders[1].pc = "done"
    /\ loaders[1].scanned # <<>>
    /\ loaders[1].scanned # document
    /\ loaders[2].pc \notin {"done", "deleteAsync"}
    /\ clientStorage # Undefined
    /\ clientStorage.components = loaders[1].components
    /\ clientStorage.components # findComponents(document)

(***************************************************************************)
(* C25  The cache of another file                                          *)
(***************************************************************************)
OwnLists == { findComponents(doc) : doc \in Versions }

\* C25: no list that was cached in another file is sent to the App.
C25_OwnFileOnly ==
    \A k \in 1..Len(toUI) :
        IsArray(toUI[k].components) => toUI[k].components \in OwnLists

\* C25 where the host gives the key of the file: the record of another file
\* is not used.
C25_OwnFileWithKey ==
    fileKey # Undefined =>
        \A k \in 1..Len(toUI) :
            IsArray(toUI[k].components) => toUI[k].components \in OwnLists

\* The list of the other file is shown by the App.
C25_OtherFileShown ==
    /\ fileKey = Undefined
    /\ componentsList = findComponents(OtherFile)

====
